---- MODULE Spec2Model ----
(***************************************************************************)
(* Model of the data-acquisition pipeline of the match API:                *)
(*   - http_client.py: fetch_url, fetch_all_urls, fetch_date_data_simple,   *)
(*     get_global_session, cleanup_session                                  *)
(*   - app.py: get_match_details, fetch_match_data_sync,                    *)
(*     get_matches_by_date                                                  *)
(*   - parsers.py: the HTML extractors and the date-response parser, at     *)
(*     the level of which sections / records a payload holds                *)
(*   - parsers.py: MatchDateParser and clean_score_data, character by      *)
(*     character, each under a specification of its own                    *)
(*   - the shared session under concurrent requests, and a batch in        *)
(*     logical time, each under a specification of its own                 *)
(*                                                                         *)
(* Python values are modelled as records, Python dicts as insertion-       *)
(* ordered sequences of [k, v] entries, exceptions as values with a        *)
(* `raised` field.                                                          *)
(***************************************************************************)
EXTENDS Integers, Sequences, FiniteSets, TLC

VARIABLES
    pc,              \* position of the one logical request: idle / fanout / done
    request,         \* the incoming request (route and argument)
    global_session,  \* http_client.global_session: none / open / closed
    loop_state,      \* the event loop of fetch_match_data_sync: none / running / closed
    tasks,           \* the fetch_url tasks of the batch, by position in urls
    order,           \* positions of the tasks in the order they completed
    now,             \* logical clock: one tick per task step
    attempts,        \* number of GETs issued per position
    upstream,        \* what the upstream answered per position (none before it did)
    results,         \* what fetch_all_urls returned (a list, in urls order)
    data,            \* the bundle built by fetch_match_data_sync
    cache,           \* flask cache: set of [key, value] entries
    response,        \* what the caller of the route receives
    date_upstream    \* what the upstream answered to the date fetch

main_vars == <<pc, request, global_session, loop_state, tasks, order, now, attempts,
               upstream, results, data, cache, response, date_upstream>>

\* MatchDateParser._parse_match_data, one record body
VARIABLES
    tok_pc,          \* idle / loop / returned
    data_str,        \* the record body
    char_index,      \* position of the for loop in data_str
    parts,           \* the fields emitted so far
    current,         \* the field being read
    in_quotes        \* inside a single-quoted segment

tok_vars == <<tok_pc, data_str, char_index, parts, current, in_quotes>>

\* MatchDateParser._parse_matches, one Data blob
VARIABLES
    parse_pc,        \* idle / scan / returned
    blob_src,        \* the records upstream wrote the blob from
    js_code,         \* the text of the blob
    scan_pos,        \* where re.finditer resumes
    match_list       \* the list _parse_matches builds

parse_vars == <<parse_pc, blob_src, js_code, scan_pos, match_list>>

\* clean_score_data, applied once and again
VARIABLES
    score_calls,     \* number of calls made
    score_text,      \* the argument of the first call
    cleaned_once,    \* clean_score_data(text)
    cleaned_twice    \* clean_score_data(clean_score_data(text))

score_vars == <<score_calls, score_text, cleaned_once, cleaned_twice>>

\* concurrent match-details requests over the module-level session
VARIABLES
    global_ref,      \* http_client.global_session: 0 (None) or a session object
    session_closed,  \* the closed flag of every ClientSession made so far
    req_pc,          \* per request: idle / session / fanout / done
    req_loop,        \* per request: the event loop of its thread: none / open / closed
    req_session,     \* per request: the session fetch_all_urls holds
    in_flight,       \* per request: sub-requests issued and not yet ended
    lost             \* per request: sub-requests that ended on a closed session

session_vars == <<global_ref, session_closed, req_pc, req_loop, req_session, in_flight,
                  lost>>

\* one batch in logical time
VARIABLES
    pool_pc,         \* idle / gather / returned
    latency,         \* per position: time from the GET to its response
    fetch_state,     \* per position: created / running / done
    started_at,      \* per position: when the GET was issued
    finished_at,     \* per position: when the response arrived
    clock,           \* logical time
    batch_end        \* when gather returned

pool_vars == <<pool_pc, latency, fetch_state, started_at, finished_at, clock, batch_end>>

\* one call of an HTML extractor
VARIABLES
    extract_pc,      \* idle / called / returned
    extract_fn,      \* the extractor called
    table_src,       \* parse_standings_table: the rows of the table, each the cells it was written with
    table_out,       \* what parse_standings_table returned or raised
    row_src,         \* parse_match_list_table: the texts of the td cells of the one data row
    row_out,         \* the rows parse_match_list_table returned
    span_src,        \* parse_match_info: the 'Score 1st Half' span of the header
    score_info       \* the first-half entries of score_info

extract_vars == <<extract_pc, extract_fn, table_src, table_out, row_src, row_out,
                  span_src, score_info>>

\* the rate limiter of the middleware, the module-level one, and the clock
VARIABLES
    rate_args,       \* the limit and window the calls pass, and the clients that call
    rate_now,        \* time.time()
    mw_limiter,      \* security_middleware.rate_limiter
    rate_limiter,    \* security.rate_limiter, the module-level instance
    last_call,       \* the last is_allowed call: ip, time, answer, whether it left the limiter as it was
    allowed_log,     \* per ip: the times of the calls allowed within the last window
    stats            \* what admin_stats last returned

rate_vars == <<rate_args, rate_now, mw_limiter, rate_limiter, last_call, allowed_log, stats>>

\* match-details requests over the cache of the application
VARIABLES
    cache_store,     \* the Cache object in time: per key the value stored and when it expires
    cache_now,       \* time.time()
    h_pc,            \* per handler thread: idle / missed / fetching / store / done
    h_match,         \* per handler thread: the match id of its request
    h_data,          \* per handler thread: what fetch_match_data_cached returned
    h_fetched,       \* per handler thread: whether fetch_match_data_sync ran for it
    h_resp           \* per handler thread: the response of its request

cache_vars == <<cache_store, cache_now, h_pc, h_match, h_data, h_fetched, h_resp>>

\* the groups that the pipeline, tokenizer, blob, score, session and batch
\* steps leave alone
rest_vars == <<extract_vars, rate_vars, cache_vars>>

aux_vars == <<tok_vars, parse_vars, score_vars, session_vars, pool_vars, rest_vars>>

vars == <<main_vars, aux_vars>>

-----------------------------------------------------------------------------
(* Bounds of the model *)

\* number of entries of the urls dict that the model issues (the code has 8)
NumUrls == 3
\* most A[n] records in one date blob
MaxRecords == 2
\* length of an upstream body that is not JSON, longer than the preview
LongBodyLen == 250
\* longest record body of the character scan
MaxBodyLen == 5
\* most A[n] records in the text of a blob
MaxBlobRecords == 2
\* most parts a datetime field has after its sixth
MaxExtraParts == 1
\* longest cell text given to clean_score_data
MaxScoreLen == 4
\* match-details requests served at once
NumRequests == 3
\* longest time a sub-request takes
MaxLatency == 3

\* rows of a standings table
MaxTableRows == 4

\* cells of a match-list row behind its first six
MaxResultCells == 6

\* characters of a first-half score text
MaxHtLen == 4

\* the largest limit passed to is_allowed besides the default
MaxLimit == 2

\* steps of the clock of the rate limiter
MaxTicks == 3

\* handler threads serving match-details requests at once
NumHandlers == 2

\* steps of the clock of the cache
MaxCacheTicks == 3

(* Program constants *)

\* text[:200] in fetch_url
PreviewLen == 200
\* a match record needs at least 7 positional fields
MinFields == 7
\* TCPConnector(limit=20, limit_per_host=10)
limit == 20
limit_per_host == 10

\* is_allowed: the default limit and window, and the time a block lasts
default_limit == 60
default_window == 3600
block_seconds == 3600

\* cache.memoize(timeout=300) and cache.set(cache_key, data, timeout=300)
cache_timeout == 300

Min(a, b) == IF a < b THEN a ELSE b

-----------------------------------------------------------------------------
(* The urls dict of fetch_match_data_sync, in insertion order.  A batch of *)
(* NumUrls entries keeps h2h_details first and first_half_odds last, as    *)
(* in the code, with the plain odds endpoints in between.                  *)

AllKeys == <<"h2h_details", "ah_odds", "corner_odds", "correct_score_odds",
             "double_chance_odds", "odds_comp", "over_under_odds", "first_half_odds">>

urls_keys ==
    IF NumUrls >= Len(AllKeys) THEN AllKeys
    ELSE SubSeq(AllKeys, 1, NumUrls - 1) \o <<"first_half_odds">>

Pos == 1..Len(urls_keys)

url_of(key, match_id) == <<"https://live20.nowgoal25.com", key, match_id>>

-----------------------------------------------------------------------------
(* HTML documents.  A document is what BeautifulSoup makes of a body: which *)
(* containers it holds.  A standings table is its rows; a row is the number *)
(* of th cells, of td cells, and whether its text contains "HT".            *)

Row(ths, tds, ht) == [ths |-> ths, tds |-> tds, ht |-> ht]

NoTable == [present |-> FALSE, rows |-> <<>>]
Table(rows) == [present |-> TRUE, rows |-> rows]

\* title row, header row, two data rows, "HT" header row, one data row
GoodTable == Table(<<Row(1, 0, FALSE), Row(2, 0, FALSE), Row(0, 2, FALSE),
                     Row(0, 2, FALSE), Row(2, 0, TRUE), Row(0, 2, FALSE)>>)
\* a table whose only row is the "HT" header row
HtOnlyTable == Table(<<Row(1, 0, TRUE)>>)

DocFull ==
    [fbheader |-> TRUE, porletP12 |-> TRUE, porletP4 |-> TRUE,
     home_table |-> GoodTable, guest_table |-> GoodTable,
     table_v1 |-> TRUE, table_v2 |-> TRUE, table_v3 |-> TRUE,
     porletP13 |-> TRUE, porletP14 |-> TRUE]

\* a page without any of the containers (an error page, a body that is not HTML)
DocEmpty ==
    [fbheader |-> FALSE, porletP12 |-> FALSE, porletP4 |-> FALSE,
     home_table |-> NoTable, guest_table |-> NoTable,
     table_v1 |-> FALSE, table_v2 |-> FALSE, table_v3 |-> FALSE,
     porletP13 |-> FALSE, porletP14 |-> FALSE]

\* the full page, with a home standings table reduced to its "HT" row
DocShortStandings == [DocFull EXCEPT !.home_table = HtOnlyTable]

Docs == {DocFull, DocEmpty, DocShortStandings}

(* Results of a call: a value, or an exception raised. *)
Ok(v) == [raised |-> FALSE, value |-> v]
Raise(exc) == [raised |-> TRUE, exc |-> exc]

ErrorMarker(msg) == [error |-> msg]
\* a Python list and a Python dict, told apart from a marker by their field
PyList(items) == [list |-> items]
PyDict(entries) == [dict |-> entries]
Parsed(section) == [section |-> section]

\* parse_block of parse_standings_table: idxs are the rows of the block, the
\* first being its header row; a data row is kept when it has as many td cells
\* as the header row has th cells
parse_block(rows, idxs) ==
    IF Len(idxs) < 2 THEN <<>>
    ELSE SelectSeq(Tail(idxs), LAMBDA i : rows[i].tds = rows[idxs[1]].ths)

IndexSeq(a, b) == [i \in 1..(IF b >= a THEN b - a + 1 ELSE 0) |-> a + i - 1]

\* 1-based index of the first row with "HT" in its text and a th cell, 0 if none
split_row(rows) ==
    IF \E i \in 1..Len(rows) : rows[i].ht /\ rows[i].ths > 0
    THEN CHOOSE i \in 1..Len(rows) :
            /\ rows[i].ht /\ rows[i].ths > 0
            /\ \A j \in 1..(i - 1) : ~(rows[j].ht /\ rows[j].ths > 0)
    ELSE 0

parse_standings_table(table) ==
    LET rows == table.rows
        s == split_row(rows)
    IN  IF s = 0 THEN Ok([full_time |-> <<>>, half_time |-> <<>>])
        ELSE IF Len(rows) < 2 THEN Raise("IndexError")   \* all_rows[1]
        ELSE Ok([full_time |-> parse_block(rows, <<2>> \o IndexSeq(3, s - 1)),
                 half_time |-> parse_block(rows, <<s>> \o IndexSeq(s + 1, Len(rows)))])

\* the standings dict has one entry per team table that is present
parse_standings(doc) ==
    IF ~doc.porletP4 THEN Ok(PyDict(<<>>))
    ELSE LET h == IF doc.home_table.present
                  THEN parse_standings_table(doc.home_table) ELSE Ok(<<>>)
             g == IF doc.guest_table.present
                  THEN parse_standings_table(doc.guest_table) ELSE Ok(<<>>)
         IN  IF h.raised THEN h
             ELSE IF g.raised THEN g
             ELSE Ok(PyDict(
                     (IF doc.home_table.present
                      THEN <<[k |-> "home_team_standings", v |-> h.value]>> ELSE <<>>)
                     \o
                     (IF doc.guest_table.present
                      THEN <<[k |-> "away_team_standings", v |-> g.value]>> ELSE <<>>)))

parse_match_list_table(doc, table_id) ==
    IF ~doc[table_id] THEN PyList(<<>>) ELSE PyList(<<Parsed(table_id)>>)

parse_injury_suspension(doc) ==
    IF ~doc.porletP13
    THEN ErrorMarker(<<"Injury and Suspension section (porletP13) not found.">>)
    ELSE Parsed("injury_and_suspension")

parse_last_match_lineups(doc) ==
    IF ~doc.porletP14
    THEN ErrorMarker(<<"Last Match Lineups section (porletP14) not found.">>)
    ELSE Parsed("last_match_lineups")

parse_fixture(doc) ==
    IF ~doc.porletP12
    THEN ErrorMarker(<<"Fixture section (porletP12) not found.">>)
    ELSE Parsed("fixture")

parse_match_info(doc) ==
    IF ~doc.fbheader
    THEN ErrorMarker(<<"Match info header (fbheader) not found.">>)
    ELSE Parsed("match_info")

\* the six sections are computed in sequence; the first exception ends the call
parse_h2h_details(doc) ==
    LET st == parse_standings(doc)
    IN  IF st.raised THEN st
        ELSE Ok([standings |-> st.value,
                 head_to_head |-> parse_match_list_table(doc, "table_v3"),
                 home_team_previous_matches |-> parse_match_list_table(doc, "table_v1"),
                 away_team_previous_matches |-> parse_match_list_table(doc, "table_v2"),
                 injury_and_suspension |-> parse_injury_suspension(doc),
                 last_match_lineups |-> parse_last_match_lineups(doc)])

parse_first_half_odds(json_data) ==
    IF json_data.kind # "json_object"
    THEN ErrorMarker(<<"Invalid JSON data for first half odds">>)
    ELSE IF json_data.errcode # 0
    THEN ErrorMarker(<<"API returned error code", json_data.errcode>>)
    ELSE [error_code |-> json_data.errcode, first_half_odds |-> json_data.kind]

-----------------------------------------------------------------------------
(* Upstream responses.  kind: how the GET ended; ctype: the content-type    *)
(* header of a 2xx response; body: the text of a 2xx response.              *)

JsonObject(errcode) == [kind |-> "json_object", errcode |-> errcode, len |-> 2]
NotJsonText == [kind |-> "text", errcode |-> 0, len |-> LongBodyLen]
HtmlBody(doc) == [kind |-> "html", doc |-> doc, len |-> LongBodyLen]
NoBody == [kind |-> "none", errcode |-> 0, len |-> 0]

Response(kind, ctype, body) == [kind |-> kind, ctype |-> ctype, body |-> body]

\* connection failure, total timeout, non-2xx status
FailedResponses ==
    {Response(k, "", NoBody) : k \in {"conn_error", "timeout", "http_status"}}

JsonResponses ==
    { Response("ok", "application/json", JsonObject(0)),
      Response("ok", "application/json", JsonObject(1)),
      Response("ok", "application/json", NotJsonText),
      Response("ok", "text/javascript", JsonObject(0)),
      Response("ok", "text/html", JsonObject(0)),
      Response("ok", "text/html", NotJsonText) }

HtmlResponses == {Response("ok", "text/html", HtmlBody(d)) : d \in Docs}

NoUpstream == Response("none", "", NoBody)

\* what the upstream may answer on the endpoint of a key
ResponsesFor(key) ==
    FailedResponses \cup (IF key = "h2h_details" THEN HtmlResponses ELSE JsonResponses)

(* json.loads(text) / response.json(): a body parses when it is JSON text *)
json_parses(body) == body.kind = "json_object"

\* response.json() checks the declared type against application/json before
\* it decodes, and raises ContentTypeError (a ClientError) on a mismatch
json_mimetype_ok(ctype) == ctype = "application/json"

\* text[:n]
text_slice(body, n) == [body EXCEPT !.len = Min(@, n)]

\* BeautifulSoup(content, 'lxml')
BeautifulSoup(body) == IF body.kind = "html" THEN body.doc ELSE DocEmpty

(* The tuple fetch_url returns: key, content, content_type, fetch_time *)
Result(key, content, content_type, fetch_time) ==
    [key |-> key, content |-> content, content_type |-> content_type,
     fetch_time |-> fetch_time, exception |-> FALSE]

\* the entry of a task that has not returned
NoResult(key) ==
    [key |-> key, content |-> NoBody, content_type |-> "pending",
     fetch_time |-> 0, exception |-> FALSE]

client_error(key, url, resp, fetch_time) ==
    Result(key, [error |-> <<"Failed to fetch", url>>, details |-> <<resp.kind>>],
           "error", fetch_time)

\* a variant of the last handler that lets the exception leave fetch_url, so
\* that gather hands it over in place of the tuple
unexpected_error_reraised(key, resp, fetch_time) ==
    [Result(key, [error |-> <<"Unexpected error", resp.kind>>], "error", fetch_time)
        EXCEPT !.exception = TRUE]

\* except Exception: the last handler of fetch_url
unexpected_error(key, resp, fetch_time) ==
    Result(key, [error |-> <<"Unexpected error", resp.kind>>], "error", fetch_time)

\* a fallback that gives up on every body whose content type is not JSON
parse_as_json_never(key, resp, fetch_time) ==
    Result(key, [error |-> <<"Response is not JSON">>,
                 content |-> text_slice(resp.body, PreviewLen)],
           "error", fetch_time)

\* the else branch of the content-type test: json.loads(text) in a try
parse_as_json(key, resp, fetch_time) ==
    IF json_parses(resp.body)
    THEN Result(key, resp.body, "json", fetch_time)
    ELSE \* except json.JSONDecodeError
         Result(key, [error |-> <<"Response is not JSON">>,
                      content |-> text_slice(resp.body, PreviewLen)],
                "error", fetch_time)

fetch_url(key, url, resp, fetch_time) ==
    IF resp.kind \in {"conn_error", "http_status"}
    THEN \* except aiohttp.ClientError
         client_error(key, url, resp, fetch_time)
    ELSE IF resp.kind = "timeout"
    THEN \* asyncio.TimeoutError is no ClientError
         unexpected_error(key, resp, fetch_time)
    ELSE IF key = "h2h_details"
    THEN Result(key, resp.body, "html", fetch_time)
    ELSE IF resp.ctype \in {"application/json", "text/javascript"}
    THEN IF ~json_mimetype_ok(resp.ctype)
         THEN client_error(key, url, [resp EXCEPT !.kind = "content_type"], fetch_time)
         ELSE IF json_parses(resp.body)
         THEN Result(key, resp.body, "json", fetch_time)
         ELSE \* except json.JSONDecodeError
              Result(key, [error |-> <<"Failed to decode JSON from", url>>,
                           details |-> <<"JSONDecodeError">>], "error", fetch_time)
    ELSE parse_as_json(key, resp, fetch_time)

-----------------------------------------------------------------------------
(* Python dicts: insertion-ordered sequences of [k, v] entries *)

dict_has(d, k) == \E i \in 1..Len(d) : d[i].k = k

dict_get(d, k) == d[CHOOSE i \in 1..Len(d) : d[i].k = k].v

dict_keys(d) == [i \in 1..Len(d) |-> d[i].k]

\* d[k] = v: an existing key keeps its place, a new key is appended
dict_set(d, k, v) ==
    IF dict_has(d, k)
    THEN [i \in 1..Len(d) |-> IF d[i].k = k THEN [k |-> k, v |-> v] ELSE d[i]]
    ELSE Append(d, [k |-> k, v |-> v])

-----------------------------------------------------------------------------
(* fetch_match_data_sync: assembling the bundle from the results *)

\* data = {'match_id': ..., 'timestamp': ..., 'fetch_times': {}, 'cached': False}
new_data(match_id) ==
    << [k |-> "match_id", v |-> [int |-> match_id]],
       [k |-> "timestamp", v |-> [utc |-> "utcnow"]],
       [k |-> "fetch_times", v |-> [dict |-> <<>>]],
       [k |-> "cached", v |-> [bool |-> FALSE]] >>

\* data['fetch_times'][key] = fetch_time
set_fetch_time(d, key, fetch_time) ==
    dict_set(d, "fetch_times",
             [dict |-> dict_set(dict_get(d, "fetch_times").dict, key, [secs |-> fetch_time])])

\* the try block around the three HTML parsers: what was stored before the
\* exception stays, and h2h_details gets the error
parse_html(d, key, content) ==
    LET soup == BeautifulSoup(content)
        d1 == dict_set(d, "match_info", parse_match_info(soup))
        d2 == dict_set(d1, "fixture", parse_fixture(soup))
        h2h == parse_h2h_details(soup)
    IN  IF h2h.raised
        THEN dict_set(d2, key, ErrorMarker(<<"Failed to parse HTML", h2h.exc>>))
        ELSE dict_set(d2, "h2h_details", h2h.value)

\* one turn of the loop `for result in results`
process_result(d, result) ==
    IF result.exception
    THEN dict_set(d, "general_error", ErrorMarker(<<"Request failed with exception">>))
    ELSE LET d1 == set_fetch_time(d, result.key, result.fetch_time)
         IN  IF result.content_type = "error"
             THEN dict_set(d1, result.key, result.content)
             ELSE IF result.content_type = "html" /\ result.key = "h2h_details"
             THEN parse_html(d1, result.key, result.content)
             ELSE IF result.content_type = "json"
             THEN IF result.key = "first_half_odds"
                  THEN dict_set(d1, result.key, parse_first_half_odds(result.content))
                  ELSE dict_set(d1, result.key, result.content)
             ELSE dict_set(d1, result.key,
                           ErrorMarker(<<"Unknown content type", result.content_type>>))

RECURSIVE process_results(_, _)
process_results(d, rs) ==
    IF rs = <<>> THEN d ELSE process_results(process_result(d, Head(rs)), Tail(rs))

-----------------------------------------------------------------------------
(* fetch_all_urls: the tasks and asyncio.gather *)

Task(state, start, result) == [state |-> state, start |-> start, result |-> result]

\* tasks = [fetch_url(session, url, key) for key, url in urls.items()]
new_tasks == [i \in Pos |-> Task("created", 0, NoResult(urls_keys[i]))]

\* a variant that fails fast: an error result also ends the tasks in flight
settle_task_fail_fast(ts, i, result) ==
    [j \in Pos |->
        IF j = i THEN Task("settled", ts[j].start, result)
        ELSE IF result.content_type = "error" /\ ts[j].state = "running"
        THEN Task("settled", ts[j].start,
                  Result(urls_keys[j], [error |-> <<"Unexpected error", "cancelled">>],
                         "error", 0))
        ELSE ts[j]]

\* a variant that retries: a task whose fetch failed is scheduled again
settle_task_retry(ts, i, result) ==
    IF result.content_type = "error"
    THEN [ts EXCEPT ![i] = Task("created", 0, NoResult(urls_keys[i]))]
    ELSE [ts EXCEPT ![i] = Task("settled", @.start, result)]

\* a task that returns is done with its own result; no other task changes
settle_task(ts, i, result) == [ts EXCEPT ![i] = Task("settled", @.start, result)]

\* a variant that returns on the first failure
gather_ready_fail_fast(ts) ==
    \/ \A i \in Pos : ts[i].state = "settled"
    \/ \E i \in Pos : ts[i].state = "settled" /\ ts[i].result.content_type = "error"

\* gather(*tasks, return_exceptions=True) resumes its caller when every task is done
gather_ready(ts) == \A i \in Pos : ts[i].state = "settled"

\* a variant that leaves out the results of the failed tasks
gather_results_drop_failed(ts, completed) ==
    SelectSeq([i \in Pos |-> ts[i].result], LAMBDA r : r.content_type # "error")

\* a variant that hands the results as they complete (asyncio.as_completed)
gather_results_as_completed(ts, completed) ==
    [n \in 1..Len(completed) |-> ts[completed[n]].result]

\* and hands the results in the order of the tasks, not of their completion
gather_results(ts, completed) == [i \in Pos |-> ts[i].result]

\* the finally block cancels the tasks of the loop that are still pending
cancel_pending(ts) ==
    [i \in Pos |-> IF ts[i].state = "settled" THEN ts[i]
                   ELSE Task("cancelled", ts[i].start, ts[i].result)]

-----------------------------------------------------------------------------
(* The date listing: fetch_date_data_simple, parse_date_response and        *)
(* get_matches_by_date.  A blob is the list of its A[n] records; a record   *)
(* is the number of fields its body tokenizes to and whether its datetime   *)
(* field parses.                                                            *)

RawRecord(nfields, time_ok) == [nfields |-> nfields, time_ok |-> time_ok]

RawRecords == {RawRecord(MinFields, TRUE), RawRecord(MinFields, FALSE),
               RawRecord(MinFields - 1, TRUE)}

Blobs == UNION {[1..n -> RawRecords] : n \in 0..MaxRecords}

\* the response text: not JSON, a JSON array, or a JSON object whose Data
\* field is missing, null or a blob
Envelope(json, field, blob) == [json |-> json, field |-> field, blob |-> blob]

Envelopes ==
    {Envelope("invalid", "missing", <<>>), Envelope("array", "missing", <<>>),
     Envelope("object", "missing", <<>>), Envelope("object", "null", <<>>)}
    \cup {Envelope("object", "blob", b) : b \in Blobs}

DateResponse(kind, envelope) == [kind |-> kind, envelope |-> envelope]

DateResponses ==
    {DateResponse(k, Envelope("invalid", "missing", <<>>)) : k \in {"conn_error", "http_status"}}
    \cup {DateResponse("ok", e) : e \in Envelopes}

NoDateResponse == DateResponse("none", Envelope("invalid", "missing", <<>>))

\* requests.get raising, or a status other than 200, ends in APIError
fetch_date_data_simple(dresp) ==
    IF dresp.kind = "ok" THEN Ok(dresp.envelope) ELSE Raise("APIError")

\* _parse_match_data: None under MinFields fields, else the record, whose
\* match_time is None when the datetime does not parse
parse_match_data(n, raw) ==
    IF raw.nfields < MinFields THEN <<>>
    ELSE <<[match_id |-> n, match_time |-> raw.time_ok]>>

RECURSIVE parse_matches_from(_, _)
parse_matches_from(blob, n) ==
    IF n > Len(blob) THEN <<>>
    ELSE parse_match_data(n, blob[n]) \o parse_matches_from(blob, n + 1)

parse_matches(blob) == parse_matches_from(blob, 1)

None == [none |-> TRUE, matches |-> <<>>]

\* a variant whose except branch returns an empty result instead of None
parse_date_response_empty(envelope) ==
    [none |-> FALSE,
     matches |-> parse_matches(IF envelope.json = "object" /\ envelope.field = "blob"
                               THEN envelope.blob ELSE <<>>)]

\* json.loads fails on text that is not JSON, .get on a value that is not a
\* dict, re.finditer on a Data that is not a string: every exception gives None
parse_date_response(envelope) ==
    IF envelope.json # "object" THEN None
    ELSE IF envelope.field = "null" THEN None
    ELSE [none |-> FALSE,
          matches |-> parse_matches(IF envelope.field = "blob" THEN envelope.blob ELSE <<>>)]

\* the loop of get_matches_by_date keeps the matches whose match_time is set
listed_matches(matches) == SelectSeq(matches, LAMBDA m : m.match_time)

\* result = {'date': ..., 'match_count': ..., 'matches': ..., 'cached_at': ...}
date_result(date_str, matches) ==
    << [k |-> "date", v |-> [str |-> date_str]],
       [k |-> "match_count", v |-> [int |-> Len(matches)]],
       [k |-> "matches", v |-> [list |-> matches]],
       [k |-> "cached_at", v |-> [utc |-> "now"]] >>

-----------------------------------------------------------------------------
(* Requests and responses of the two routes *)

\* the route takes any non-negative integer: 0 is the id that the validation
\* of fetch_match_data_sync refuses, 1 stands for the ids it accepts
MatchIds == {0, 1}

\* strptime(date_str, '%Y-%m-%d') accepts the first and raises on the second
DateStrings == {[text |-> "2025-07-24", valid |-> TRUE],
                [text |-> "24/07/2025", valid |-> FALSE]}

NoRequest == [route |-> "none", match_id |-> 0, date_str |-> ""]
MatchRequest(match_id) == [route |-> "match", match_id |-> match_id, date_str |-> ""]
DateRequest(d) == [route |-> "date", match_id |-> 0, date_str |-> d.text]

NoResponse == [status |-> 0, error |-> FALSE, body |-> <<>>]
\* jsonify(data)
JsonResponse(body) == [status |-> 200, error |-> FALSE, body |-> body]
\* a single top-level {'error': ...} with an error status
ErrorResponse(status, message) ==
    [status |-> status, error |-> TRUE,
     body |-> <<[k |-> "error", v |-> [str |-> message]]>>]

cache_has(c, key) == \E e \in c : e.key = key
cache_get(c, key) == (CHOOSE e \in c : e.key = key).value
cache_set(c, key, value) == {e \in c : e.key # key} \cup {[key |-> key, value |-> value]}

-----------------------------------------------------------------------------
(* Python strings are sequences of one-character strings.                   *)

Digits == {"0", "1", "2", "3", "4", "5", "6", "7", "8", "9"}

DigitVal(ch) ==
    CASE ch = "0" -> 0 [] ch = "1" -> 1 [] ch = "2" -> 2 [] ch = "3" -> 3
      [] ch = "4" -> 4 [] ch = "5" -> 5 [] ch = "6" -> 6 [] ch = "7" -> 7
      [] ch = "8" -> 8 [] ch = "9" -> 9

\* str.strip(): the text without its leading and trailing white space
RECURSIVE lstrip(_)
lstrip(s) == IF s # <<>> /\ Head(s) = " " THEN lstrip(Tail(s)) ELSE s

RECURSIVE rstrip(_)
rstrip(s) ==
    IF s # <<>> /\ s[Len(s)] = " " THEN rstrip(SubSeq(s, 1, Len(s) - 1)) ELSE s

strip(s) == rstrip(lstrip(s))

\* str.isdigit(): not empty and digits only
isdigit(s) == s # <<>> /\ \A i \in 1..Len(s) : s[i] \in Digits

\* the value of a string of digits
RECURSIVE digits_value(_)
digits_value(s) ==
    IF s = <<>> THEN 0
    ELSE 10 * digits_value(SubSeq(s, 1, Len(s) - 1)) + DigitVal(s[Len(s)])

\* int(s): white space around the literal and one sign before it are accepted,
\* anything else raises ValueError
int(s) ==
    LET t == strip(s)
        signed == t # <<>> /\ Head(t) \in {"+", "-"}
        d == IF signed THEN Tail(t) ELSE t
    IN  IF ~isdigit(d) THEN Raise("ValueError")
        ELSE Ok(IF signed /\ Head(t) = "-" THEN 0 - digits_value(d) ELSE digits_value(d))

\* s.split(sep): the pieces of s between the occurrences of the character sep
RECURSIVE split(_, _)
split(s, sep) ==
    IF \A i \in 1..Len(s) : s[i] # sep THEN <<s>>
    ELSE LET i == CHOOSE k \in 1..Len(s) :
                      s[k] = sep /\ \A j \in 1..(k - 1) : s[j] # sep
         IN  <<SubSeq(s, 1, i - 1)>> \o split(SubSeq(s, i + 1, Len(s)), sep)

\* all strings over an alphabet, up to a length
StringsUpTo(alphabet, n) == UNION {[1..k -> alphabet] : k \in 0..n}

-----------------------------------------------------------------------------
(* MatchDateParser._parse_match_data: the scan of a record body, one        *)
(* character at a time, over parts, current and in_quotes.                   *)

ScanState(ps, cur, quoted) == [parts |-> ps, current |-> cur, in_quotes |-> quoted]

ScanStart == ScanState(<<>>, <<>>, FALSE)

\* the body of the for loop
scan_char(st, char) ==
    IF char = "'" /\ ~st.in_quotes
    THEN ScanState(st.parts, st.current, TRUE)
    ELSE IF char = "'" /\ st.in_quotes
    THEN ScanState(Append(st.parts, st.current), <<>>, FALSE)
    ELSE IF char = "," /\ ~st.in_quotes
    THEN ScanState(IF strip(st.current) # <<>>
                   THEN Append(st.parts, strip(st.current)) ELSE st.parts,
                   <<>>, FALSE)
    ELSE ScanState(st.parts, st.current \o <<char>>, st.in_quotes)

\* after the loop: what is left in current is the last field
scan_end(st) ==
    IF strip(st.current) # <<>> THEN Append(st.parts, strip(st.current)) ELSE st.parts

\* the for loop over the characters lo..hi of a body, from the state st; the
\* range is walked in two halves, the second from where the first ended
RECURSIVE scan_range(_, _, _, _)
scan_range(data_s, lo, hi, st) ==
    IF lo > hi THEN st
    ELSE IF lo = hi THEN scan_char(st, data_s[lo])
    ELSE LET mid == (lo + hi) \div 2
             half == scan_range(data_s, lo, mid, st)
         IN  \* the test has the first half evaluated before the second starts
             IF half.in_quotes \in BOOLEAN
             THEN scan_range(data_s, mid + 1, hi, half) ELSE half

\* the parts list of a record body
tokenize(data_s) == scan_end(scan_range(data_s, 1, Len(data_s), ScanStart))

-----------------------------------------------------------------------------
(* MatchDateParser on the text of a Data blob.                               *)

\* the optional values of a match record
NoneValue == [none |-> TRUE]
IntValue(n) == [none |-> FALSE, int |-> n]

IsLeap(year) == (year % 4 = 0 /\ year % 100 # 0) \/ year % 400 = 0

DaysInMonth(year, month) ==
    IF month = 2 THEN (IF IsLeap(year) THEN 29 ELSE 28)
    ELSE IF month \in {4, 6, 9, 11} THEN 30 ELSE 31

\* a constructor that accepts every six integers
datetime_unchecked(year, month, day, hour, minute, second) ==
    Ok([none |-> FALSE, year |-> year, month |-> month, day |-> day,
        hour |-> hour, minute |-> minute, second |-> second])

\* datetime(year, month, day, hour, minute, second): a naive date-time, or
\* ValueError for a component out of its range
datetime(year, month, day, hour, minute, second) ==
    IF /\ year \in 1..9999
       /\ month \in 1..12
       /\ day \in 1..DaysInMonth(year, month)
       /\ hour \in 0..23
       /\ minute \in 0..59
       /\ second \in 0..59
    THEN Ok([none |-> FALSE, year |-> year, month |-> month, day |-> day,
             hour |-> hour, minute |-> minute, second |-> second])
    ELSE Raise("ValueError")

\* _parse_datetime: the first six parts as integers, None on any exception
\* and on fewer than six parts
MatchDateParser_parse_datetime(datetime_str) ==
    LET ps == split(datetime_str, ",")
    IN  IF Len(ps) < 6 THEN NoneValue
        ELSE IF \E i \in 1..6 : int(ps[i]).raised THEN NoneValue
        ELSE LET made == datetime(int(ps[1]).value, int(ps[2]).value, int(ps[3]).value,
                                  int(ps[4]).value, int(ps[5]).value, int(ps[6]).value)
             IN  IF made.raised THEN NoneValue ELSE made.value

int_if_digit(s) == IF isdigit(s) THEN IntValue(digits_value(s)) ELSE NoneValue

\* _parse_match_data: None (the empty list here) under MinFields parts
MatchDateParser_parse_match_data(data_s) ==
    LET ps == tokenize(data_s)
    IN  IF Len(ps) < MinFields THEN <<>>
        ELSE << [match_id |-> int_if_digit(ps[1]),
                 league_id |-> int_if_digit(ps[2]),
                 home_team_id |-> int_if_digit(ps[3]),
                 away_team_id |-> int_if_digit(ps[4]),
                 home_team |-> ps[5],
                 away_team |-> ps[6],
                 match_time |-> MatchDateParser_parse_datetime(ps[7]),
                 match_datetime_raw |-> ps[7]] >>

\* the pattern A\[(\d+)\]=\[(.*?)\]; tried at position p of s
NoMatch == [found |-> FALSE]

first_non_digit(s, k) ==
    IF \A j \in k..Len(s) : s[j] \in Digits THEN Len(s) + 1
    ELSE CHOOSE q \in k..Len(s) :
            s[q] \notin Digits /\ \A j \in k..(q - 1) : s[j] \in Digits

\* where the lazy group can end: at "];" with no line break before it
group_ends(s, b) ==
    {q \in b..(Len(s) - 1) :
        /\ s[q] = "]" /\ s[q + 1] = ";"
        /\ \A j \in b..(q - 1) : s[j] # "\n"}

re_match(s, p) ==
    IF ~(p + 1 <= Len(s) /\ s[p] = "A" /\ s[p + 1] = "[") THEN NoMatch
    ELSE LET k == first_non_digit(s, p + 2)
         IN  IF ~(k > p + 2 /\ k + 2 <= Len(s)
                  /\ s[k] = "]" /\ s[k + 1] = "=" /\ s[k + 2] = "[")
             THEN NoMatch
             ELSE IF group_ends(s, k + 3) = {} THEN NoMatch
             ELSE LET q == CHOOSE e \in group_ends(s, k + 3) :
                               \A f \in group_ends(s, k + 3) : e <= f
                  IN  [found |-> TRUE, index |-> SubSeq(s, p + 2, k - 1),
                       data_str |-> SubSeq(s, k + 3, q - 1), end |-> q + 2]

\* re.finditer: the next match at or after position p
re_search(s, p) ==
    IF \A q \in p..Len(s) : ~re_match(s, q).found THEN NoMatch
    ELSE re_match(s, CHOOSE q \in p..Len(s) :
                        re_match(s, q).found /\ \A r \in p..(q - 1) : ~re_match(s, r).found)

-----------------------------------------------------------------------------
(* clean_score_data                                                          *)

startswith(s, ch) == s # <<>> /\ s[1] = ch
endswith(s, ch) == s # <<>> /\ s[Len(s)] = ch

clean_score_data(text) ==
    IF text = <<>> THEN <<>>
    ELSE LET cleaned == strip(text)
         IN  IF startswith(cleaned, "(") /\ endswith(cleaned, ")")
             THEN strip(SubSeq(cleaned, 2, Len(cleaned) - 1))
             ELSE strip(cleaned)

-----------------------------------------------------------------------------
(* The state of each part of the model before it is used *)

Requests == 1..NumRequests

TokIdle ==
    /\ tok_pc = "idle"
    /\ data_str = <<>>
    /\ char_index = 0
    /\ parts = <<>>
    /\ current = <<>>
    /\ in_quotes = FALSE

ParseIdle ==
    /\ parse_pc = "idle"
    /\ blob_src = <<>>
    /\ js_code = <<>>
    /\ scan_pos = 0
    /\ match_list = <<>>

ScoreIdle ==
    /\ score_calls = 0
    /\ score_text = <<>>
    /\ cleaned_once = <<>>
    /\ cleaned_twice = <<>>

SessionIdle ==
    /\ global_ref = 0
    /\ session_closed = <<>>
    /\ req_pc = [r \in Requests |-> "idle"]
    /\ req_loop = [r \in Requests |-> "none"]
    /\ req_session = [r \in Requests |-> 0]
    /\ in_flight = [r \in Requests |-> 0]
    /\ lost = [r \in Requests |-> 0]

PoolIdle ==
    /\ pool_pc = "idle"
    /\ latency = [i \in Pos |-> 1]
    /\ fetch_state = [i \in Pos |-> "created"]
    /\ started_at = [i \in Pos |-> 0]
    /\ finished_at = [i \in Pos |-> 0]
    /\ clock = 0
    /\ batch_end = 0

-----------------------------------------------------------------------------
ExtractIdle ==
    /\ extract_pc = "idle"
    /\ extract_fn = "none"
    /\ table_src = <<>>
    /\ table_out = <<>>
    /\ row_src = <<>>
    /\ row_out = <<>>
    /\ span_src = <<>>
    /\ score_info = <<>>

RateIdle ==
    /\ rate_args = <<>>
    /\ rate_now = 0
    /\ mw_limiter = <<>>
    /\ rate_limiter = <<>>
    /\ last_call = <<>>
    /\ allowed_log = <<>>
    /\ stats = <<>>

CacheIdle ==
    /\ cache_store = <<>>
    /\ cache_now = 0
    /\ h_pc = <<>>
    /\ h_match = <<>>
    /\ h_data = <<>>
    /\ h_fetched = <<>>
    /\ h_resp = <<>>

RestIdle == ExtractIdle /\ RateIdle /\ CacheIdle

MainIdle ==
    /\ pc = "idle"
    /\ request = NoRequest
    /\ global_session = "none"
    /\ loop_state = "none"
    /\ tasks = new_tasks
    /\ order = <<>>
    /\ now = 0
    /\ attempts = [i \in Pos |-> 0]
    /\ upstream = [i \in Pos |-> NoUpstream]
    /\ results = <<>>
    /\ data = <<>>
    /\ cache = {}
    /\ response = NoResponse
    /\ date_upstream = NoDateResponse

Init ==
    /\ MainIdle
    /\ TokIdle /\ ParseIdle /\ ScoreIdle /\ SessionIdle /\ PoolIdle /\ RestIdle

\* get_match_details on a cache miss: fetch_match_data_sync refuses the id
\* before it builds the urls
MatchInvalid(match_id) ==
    /\ pc = "idle"
    /\ ~cache_has(cache, <<"match_data", match_id>>)
    /\ match_id <= 0
    /\ pc' = "done"
    /\ request' = MatchRequest(match_id)
    /\ response' = ErrorResponse(400, "Invalid match ID")
    /\ UNCHANGED <<global_session, loop_state, tasks, order, now, attempts, upstream,
                   results, data, cache, date_upstream>>
    /\ UNCHANGED aux_vars

\* get_match_details up to the await of gather: cache miss, a new event loop,
\* get_global_session, one task per entry of urls
MatchStart(match_id) ==
    /\ pc = "idle"
    /\ ~cache_has(cache, <<"match_data", match_id>>)
    /\ match_id > 0
    /\ pc' = "fanout"
    /\ request' = MatchRequest(match_id)
    /\ loop_state' = "running"
    /\ global_session' = "open"
    /\ tasks' = new_tasks
    /\ UNCHANGED <<order, now, attempts, upstream, results, data, cache, response,
                   date_upstream>>
    /\ UNCHANGED aux_vars

\* the loop runs the tasks in the order gather scheduled them; each runs
\* fetch_url up to session.get, which issues the GET
StartTask(i) ==
    /\ pc = "fanout"
    /\ tasks[i].state = "created"
    /\ \A j \in 1..(i - 1) : tasks[j].state # "created"
    /\ global_session = "open"
    /\ tasks' = [tasks EXCEPT ![i] = Task("running", now, @.result)]
    /\ attempts' = [attempts EXCEPT ![i] = @ + 1]
    /\ now' = now + 1
    /\ UNCHANGED <<pc, request, global_session, loop_state, order, upstream, results,
                   data, cache, response, date_upstream>>
    /\ UNCHANGED aux_vars

\* the upstream answers one GET (or the GET fails) and fetch_url returns
Respond(i, resp) ==
    /\ pc = "fanout"
    /\ tasks[i].state = "running"
    /\ \A j \in Pos : tasks[j].state # "created"
    /\ tasks' = settle_task(tasks, i,
                    fetch_url(urls_keys[i], url_of(urls_keys[i], request.match_id),
                              resp, now - tasks[i].start))
    /\ upstream' = [upstream EXCEPT ![i] = resp]
    /\ order' = Append(order, i)
    /\ now' = now + 1
    /\ UNCHANGED <<pc, request, global_session, loop_state, attempts, results, data,
                   cache, response, date_upstream>>
    /\ UNCHANGED aux_vars

\* gather resumes fetch_all_urls; fetch_match_data_sync builds the bundle, its
\* finally block cancels what is pending, closes the session and the loop;
\* get_match_details stores the bundle and answers
FinishBatch ==
    /\ pc = "fanout"
    /\ gather_ready(tasks)
    /\ results' = gather_results(tasks, order)
    /\ data' = process_results(new_data(request.match_id), results')
    /\ tasks' = cancel_pending(tasks)
    /\ global_session' = "none"
    /\ loop_state' = "closed"
    /\ cache' = cache_set(cache, <<"match_data", request.match_id>>, data')
    /\ response' = JsonResponse(data')
    /\ pc' = "done"
    /\ UNCHANGED <<request, order, now, attempts, upstream, date_upstream>>
    /\ UNCHANGED aux_vars

\* get_matches_by_date with a date string strptime refuses
DateInvalid(d) ==
    /\ pc = "idle"
    /\ ~d.valid
    /\ pc' = "done"
    /\ request' = DateRequest(d)
    /\ response' = ErrorResponse(400, "Invalid date format. Use YYYY-MM-DD")
    /\ UNCHANGED <<global_session, loop_state, tasks, order, now, attempts, upstream,
                   results, data, cache, date_upstream>>
    /\ UNCHANGED aux_vars

\* get_matches_by_date on a cache miss: one blocking fetch, the parse, the
\* listing, cache.set; an APIError on the way ends in the top-level error
DateListing(d, dresp) ==
    /\ pc = "idle"
    /\ d.valid
    /\ ~cache_has(cache, <<"matches_date", d.text>>)
    /\ pc' = "done"
    /\ request' = DateRequest(d)
    /\ date_upstream' = dresp
    /\ LET fetched == fetch_date_data_simple(dresp)
           parsed == IF fetched.raised THEN None ELSE parse_date_response(fetched.value)
           result == date_result(d.text, listed_matches(parsed.matches))
       IN  IF fetched.raised \/ parsed.none
           THEN /\ response' = ErrorResponse(500, "")
                /\ cache' = cache
           ELSE /\ response' = JsonResponse(result)
                /\ cache' = cache_set(cache, <<"matches_date", d.text>>, result)
    /\ UNCHANGED <<global_session, loop_state, tasks, order, now, attempts, upstream,
                   results, data>>
    /\ UNCHANGED aux_vars

Next ==
    \/ \E m \in MatchIds : MatchInvalid(m)
    \/ \E m \in MatchIds : MatchStart(m)
    \/ \E i \in Pos : StartTask(i)
    \/ \E i \in Pos : \E resp \in ResponsesFor(urls_keys[i]) : Respond(i, resp)
    \/ FinishBatch
    \/ \E d \in DateStrings : DateInvalid(d)
    \/ \E d \in DateStrings : \E dresp \in DateResponses : DateListing(d, dresp)

Spec == Init /\ [][Next]_vars

-----------------------------------------------------------------------------
(* The scan of one record body, character by character.                      *)

TokAlphabet == {"'", ",", "a", " "}

InitTok ==
    /\ MainIdle /\ ParseIdle /\ ScoreIdle /\ SessionIdle /\ PoolIdle /\ RestIdle
    /\ tok_pc = "loop"
    /\ data_str \in StringsUpTo(TokAlphabet, MaxBodyLen)
    /\ char_index = 1
    /\ parts = <<>>
    /\ current = <<>>
    /\ in_quotes = FALSE

\* one pass of the for loop
ScanChar ==
    /\ tok_pc = "loop"
    /\ char_index <= Len(data_str)
    /\ LET st == scan_char(ScanState(parts, current, in_quotes), data_str[char_index])
       IN  /\ parts' = st.parts
           /\ current' = st.current
           /\ in_quotes' = st.in_quotes
    /\ char_index' = char_index + 1
    /\ UNCHANGED <<tok_pc, data_str>>
    /\ UNCHANGED <<main_vars, parse_vars, score_vars, session_vars, pool_vars, rest_vars>>

\* the statement after the loop
ScanEnd ==
    /\ tok_pc = "loop"
    /\ char_index > Len(data_str)
    /\ parts' = scan_end(ScanState(parts, current, in_quotes))
    /\ tok_pc' = "returned"
    /\ UNCHANGED <<data_str, char_index, current, in_quotes>>
    /\ UNCHANGED <<main_vars, parse_vars, score_vars, session_vars, pool_vars, rest_vars>>

NextTok ==
    \/ ScanChar
    \/ ScanEnd

SpecTok == InitTok /\ [][NextTok]_vars

\* is position i of s inside a single-quoted segment (or one of its quotes)
quotes_before(s, i) == Cardinality({j \in 1..(i - 1) : s[j] = "'"})
unquoted(s, i) == s[i] # "'" /\ quotes_before(s, i) % 2 = 0

unquoted_commas(s) == {i \in 1..Len(s) : s[i] = "," /\ unquoted(s, i)}

\* the pieces of s between its unquoted commas
RECURSIVE segments(_)
segments(s) ==
    IF unquoted_commas(s) = {} THEN <<s>>
    ELSE LET i == CHOOSE k \in unquoted_commas(s) : \A j \in unquoted_commas(s) : k <= j
         IN  <<SubSeq(s, 1, i - 1)>> \o segments(SubSeq(s, i + 1, Len(s)))

quote_free(s) == \A i \in 1..Len(s) : s[i] # "'"

is_quoted(t) ==
    /\ Len(t) >= 2
    /\ t[1] = "'" /\ t[Len(t)] = "'"
    /\ quote_free(SubSeq(t, 2, Len(t) - 1))

\* a body made of fields that are either one quoted segment or plain text
regular_body(s) ==
    \A n \in 1..Len(segments(s)) :
        quote_free(strip(segments(s)[n])) \/ is_quoted(strip(segments(s)[n]))

\* the field a segment stands for: the content of the quotes, or the plain text
field_of(seg) ==
    IF is_quoted(strip(seg)) THEN SubSeq(strip(seg), 2, Len(strip(seg)) - 1)
    ELSE strip(seg)

\* C15: the tokenizer splits a record body exactly at the commas outside single
\* quotes: n unquoted commas give n+1 fields, a quoted segment gives one field
\* equal to its content, and an empty field shifts no position
C15_SplitAtUnquotedCommas ==
    (tok_pc = "returned" /\ data_str # <<>> /\ regular_body(data_str)) =>
        /\ Len(parts) = Cardinality(unquoted_commas(data_str)) + 1
        /\ parts = [n \in 1..Len(segments(data_str)) |-> field_of(segments(data_str)[n])]

-----------------------------------------------------------------------------
(* The text of a Data blob, written from records, and its scan by           *)
(* MatchDateParser._parse_matches.                                           *)

DigitChar(n) == CHOOSE ch \in Digits : DigitVal(ch) = n

Quoted(field) == <<"'">> \o field \o <<"'">>

RECURSIVE join(_, _)
join(items, sep) ==
    IF items = <<>> THEN <<>>
    ELSE IF Len(items) = 1 THEN items[1]
    ELSE items[1] \o sep \o join(Tail(items), sep)

\* a part of a datetime field as upstream wrote it, and the integer it
\* stands for, if it stands for one
Token(text, is_int, val) == [text |-> text, is_int |-> is_int, val |-> val]

\* a record as upstream wrote it: A[n]=['f1','f2',...]; or, with its fields
\* unquoted, A[n]=[f1,f2,...]; the tokens are those its datetime field was
\* written from
SourceRecord(n, fields, quoted, terminated, tokens) ==
    [n |-> n, fields |-> fields, quoted |-> quoted, terminated |-> terminated,
     tokens |-> tokens]

render_record(r) ==
    <<"A", "[", DigitChar(r.n), "]", "=", "[">>
    \o join([i \in 1..Len(r.fields) |->
                IF r.quoted THEN Quoted(r.fields[i]) ELSE r.fields[i]], <<",">>)
    \o (IF r.terminated THEN <<"]", ";">> ELSE <<>>)

RECURSIVE render_blob(_)
render_blob(rs) ==
    IF rs = <<>> THEN <<>> ELSE render_record(Head(rs)) \o render_blob(Tail(rs))

GoodTime == <<"2", "0", "2", "5", ",", "7", ",", "2", "4", ",", "1", "3", ",", "0", ",", "0">>
BadTime == <<"2", "0", "2", "5", ",", "1", "3">>

\* match id n, league 5, teams 2 and 3 called H and G
LeadFields(n) == <<(<<DigitChar(n)>>), (<<"5">>), (<<"2">>), (<<"3">>), (<<"H">>), (<<"G">>)>>

RecordKinds == {"good", "null_time", "short", "garbage", "quoted_terminator",
                "unterminated"}

RecordOfKind(kind, n) ==
    CASE kind = "good" ->
            SourceRecord(n, Append(LeadFields(n), GoodTime), TRUE, TRUE, <<>>)
      [] kind = "null_time" ->
            SourceRecord(n, Append(LeadFields(n), BadTime), TRUE, TRUE, <<>>)
      [] kind = "short" ->
            SourceRecord(n, LeadFields(n), TRUE, TRUE, <<>>)
      [] kind = "garbage" ->
            SourceRecord(n, <<(<<"g", "a", "r", "b", "a", "g", "e">>)>>, FALSE, TRUE, <<>>)
      [] kind = "quoted_terminator" ->
            SourceRecord(n, Append([LeadFields(n) EXCEPT ![5] = <<"H", "]", ";">>], GoodTime),
                         TRUE, TRUE, <<>>)
      [] kind = "unterminated" ->
            SourceRecord(n, Append(LeadFields(n), GoodTime), TRUE, FALSE, <<>>)

SourceBlobs ==
    UNION {{[i \in 1..k |-> RecordOfKind(kinds[i], i)] : kinds \in [1..k -> RecordKinds]}
           : k \in 0..MaxBlobRecords}

\* what upstream writes at each of the six places of a datetime field, and
\* after them
TokensAt(i) ==
    CASE i = 1 -> {Token(<<"2", "0", "2", "5">>, TRUE, 2025), Token(<<"2", "0", "2", "4">>, TRUE, 2024),
                   Token(<<"0">>, TRUE, 0), Token(<<"1", "0", "0", "0", "0">>, TRUE, 10000)}
      [] i = 2 -> {Token(<<"7">>, TRUE, 7), Token(<<"2">>, TRUE, 2),
                   Token(<<"1", "3">>, TRUE, 13), Token(<<"x">>, FALSE, 0)}
      [] i = 3 -> {Token(<<"2", "4">>, TRUE, 24), Token(<<"2", "9">>, TRUE, 29),
                   Token(<<"3", "1">>, TRUE, 31), Token(<<"0">>, TRUE, 0)}
      [] i = 4 -> {Token(<<"1", "3">>, TRUE, 13), Token(<<"2", "4">>, TRUE, 24)}
      [] i = 5 -> {Token(<<"0", "0">>, TRUE, 0), Token(<<"6", "0">>, TRUE, 60),
                   Token(<<" ", "5">>, TRUE, 5)}
      [] i = 6 -> {Token(<<"0">>, TRUE, 0), Token(<<"-", "1">>, TRUE, 0 - 1),
                   Token(<<"1", ".", "5">>, FALSE, 0)}
      [] OTHER -> {Token(<<"0">>, TRUE, 0), Token(<<"x">>, FALSE, 0)}

RECURSIVE TokenLists(_)
TokenLists(n) ==
    IF n = 0 THEN {<<>>}
    ELSE {Append(l, t) : l \in TokenLists(n - 1), t \in TokensAt(n)}

\* a datetime field of no part (the empty string) up to six parts and more
DatetimeTokens == UNION {TokenLists(n) : n \in 0..(6 + MaxExtraParts)}

render_datetime(tokens) == join([i \in 1..Len(tokens) |-> tokens[i].text], <<",">>)

\* one record: the six fields before the datetime field, then that field;
\* and one record that lacks a field
DatetimeBlobs ==
    {<<SourceRecord(1, Append(LeadFields(1), render_datetime(tokens)), TRUE, TRUE, tokens)>>
     : tokens \in DatetimeTokens}
    \cup {<<SourceRecord(1, Append(SubSeq(LeadFields(1), 1, 5), GoodTime), TRUE, TRUE, <<>>)>>}

ParseStart(src) ==
    /\ parse_pc = "scan"
    /\ blob_src = src
    /\ js_code = render_blob(src)
    /\ scan_pos = 1
    /\ match_list = <<>>

InitBlob ==
    /\ MainIdle /\ TokIdle /\ ScoreIdle /\ SessionIdle /\ PoolIdle /\ RestIdle
    /\ \E src \in SourceBlobs : ParseStart(src)

InitDatetime ==
    /\ MainIdle /\ TokIdle /\ ScoreIdle /\ SessionIdle /\ PoolIdle /\ RestIdle
    /\ \E src \in DatetimeBlobs : ParseStart(src)

\* one pass of the finditer loop whose record yields a match
RecordParsed ==
    /\ parse_pc = "scan"
    /\ re_search(js_code, scan_pos).found
    /\ LET m == re_search(js_code, scan_pos)
           match_data == MatchDateParser_parse_match_data(m.data_str)
       IN  /\ match_data # <<>>
           /\ match_list' = match_list \o match_data
           /\ scan_pos' = m.end
    /\ UNCHANGED <<parse_pc, blob_src, js_code>>
    /\ UNCHANGED <<main_vars, tok_vars, score_vars, session_vars, pool_vars, rest_vars>>

\* a loop that gives up at the first record that yields None
resume_after_skip_abort(code, m) == Len(code) + 1

\* the loop goes on behind a record that yields None
resume_after_skip(code, m) == m.end

\* one pass whose record yields None
RecordSkipped ==
    /\ parse_pc = "scan"
    /\ re_search(js_code, scan_pos).found
    /\ LET m == re_search(js_code, scan_pos)
       IN  /\ MatchDateParser_parse_match_data(m.data_str) = <<>>
           /\ scan_pos' = resume_after_skip(js_code, m)
    /\ UNCHANGED <<parse_pc, blob_src, js_code, match_list>>
    /\ UNCHANGED <<main_vars, tok_vars, score_vars, session_vars, pool_vars, rest_vars>>

\* no further match: _parse_matches returns
ScanReturn ==
    /\ parse_pc = "scan"
    /\ ~re_search(js_code, scan_pos).found
    /\ parse_pc' = "returned"
    /\ UNCHANGED <<blob_src, js_code, scan_pos, match_list>>
    /\ UNCHANGED <<main_vars, tok_vars, score_vars, session_vars, pool_vars, rest_vars>>

NextParse ==
    \/ RecordParsed
    \/ RecordSkipped
    \/ ScanReturn

SpecBlob == InitBlob /\ [][NextParse]_vars

SpecDatetime == InitDatetime /\ [][NextParse]_vars

\* what identifies a match of the output, and the same for a record as written
entry_key(m) ==
    [match_id |-> m.match_id, home_team |-> m.home_team, away_team |-> m.away_team,
     match_datetime_raw |-> m.match_datetime_raw]

source_key(r) ==
    [match_id |-> IntValue(r.n), home_team |-> r.fields[5], away_team |-> r.fields[6],
     match_datetime_raw |-> r.fields[7]]

\* the records of a blob that have at least MinFields fields, in order
RECURSIVE expected_keys(_)
expected_keys(rs) ==
    IF rs = <<>> THEN <<>>
    ELSE (IF Head(rs).terminated /\ Len(Head(rs).fields) >= MinFields
          THEN <<source_key(Head(rs))>> ELSE <<>>)
         \o expected_keys(Tail(rs))

returned_keys == [i \in 1..Len(match_list) |-> entry_key(match_list[i])]

has_terminator(field) ==
    \E i \in 1..(Len(field) - 1) : field[i] = "]" /\ field[i + 1] = ";"

\* a record the scan delimits as it was written: closed by "];", and with no
\* "];" inside a field
delimited(r) ==
    r.terminated /\ \A i \in 1..Len(r.fields) : ~has_terminator(r.fields[i])

is_calendar_datetime(v) ==
    /\ v[1] >= 1 /\ v[1] <= 9999
    /\ v[2] >= 1 /\ v[2] <= 12
    /\ v[3] >= 1
    /\ v[3] <= (IF v[2] = 2
                THEN (IF (v[1] % 4 = 0 /\ v[1] % 100 # 0) \/ v[1] % 400 = 0 THEN 29 ELSE 28)
                ELSE IF v[2] \in {4, 6, 9, 11} THEN 30 ELSE 31)
    /\ v[4] >= 0 /\ v[4] <= 23
    /\ v[5] >= 0 /\ v[5] <= 59
    /\ v[6] >= 0 /\ v[6] <= 59

\* the first n tokens are integers
integers(tokens, n) == \A i \in 1..n : tokens[i].is_int

values(tokens) == [i \in 1..Len(tokens) |-> tokens[i].val]

\* a record of seven fields was scanned and returned
DatetimeParsed ==
    /\ parse_pc = "returned"
    /\ Len(blob_src) = 1
    /\ Len(blob_src[1].fields) = MinFields

exactly(kickoff, v) ==
    kickoff = [none |-> FALSE, year |-> v[1], month |-> v[2], day |-> v[3],
               hour |-> v[4], minute |-> v[5], second |-> v[6]]

\* C16, as stated: six integers that are a date and a time give exactly that
\* kickoff; fewer than six parts, a part that is no integer or a part out of
\* range give no exception, a null kickoff and the raw string unchanged
C16_AsStated ==
    DatetimeParsed =>
        LET tokens == blob_src[1].tokens
        IN  /\ Len(match_list) = 1
            /\ match_list[1].match_datetime_raw = blob_src[1].fields[MinFields]
            /\ (Len(tokens) = 6 /\ integers(tokens, 6) /\ is_calendar_datetime(values(tokens)))
                    => exactly(match_list[1].match_time, values(tokens))
            /\ (\/ Len(tokens) < 6
                \/ ~integers(tokens, Len(tokens))
                \/ (Len(tokens) >= 6 /\ integers(tokens, 6)
                                     /\ ~is_calendar_datetime(values(tokens))))
                    => match_list[1].match_time = NoneValue

\* C16: the first six parts decide: when they are integers that are a date and
\* a time the kickoff is exactly those, with no offset; with fewer than six
\* parts, or one of the first six no integer or out of range, nothing is
\* raised, the kickoff is null; the raw string is kept unchanged either way
C16_FirstSixPartsDecide ==
    DatetimeParsed =>
        LET tokens == blob_src[1].tokens
        IN  /\ Len(match_list) = 1
            /\ match_list[1].match_datetime_raw = blob_src[1].fields[MinFields]
            /\ IF Len(tokens) >= 6 /\ integers(tokens, 6)
                                   /\ is_calendar_datetime(values(tokens))
               THEN exactly(match_list[1].match_time, values(tokens))
               ELSE match_list[1].match_time = NoneValue

\* a field of six integers parsed to its kickoff
C16_Witness ==
    /\ DatetimeParsed
    /\ Len(blob_src[1].tokens) = 6
    /\ Len(match_list) = 1
    /\ match_list[1].match_time = [none |-> FALSE, year |-> 2025, month |-> 7, day |-> 24,
                                    hour |-> 13, minute |-> 0, second |-> 0]

-----------------------------------------------------------------------------
(* clean_score_data applied to a cell text, and again to its own result.     *)

ScoreAlphabet == {"(", ")", " ", "2"}

InitScore ==
    /\ MainIdle /\ TokIdle /\ ParseIdle /\ SessionIdle /\ PoolIdle /\ RestIdle
    /\ score_calls = 0
    /\ score_text \in StringsUpTo(ScoreAlphabet, MaxScoreLen)
    /\ cleaned_once = <<>>
    /\ cleaned_twice = <<>>

CleanScore ==
    /\ score_calls = 0
    /\ cleaned_once' = clean_score_data(score_text)
    /\ score_calls' = 1
    /\ UNCHANGED <<score_text, cleaned_twice>>
    /\ UNCHANGED <<main_vars, tok_vars, parse_vars, session_vars, pool_vars, rest_vars>>

CleanScoreAgain ==
    /\ score_calls = 1
    /\ cleaned_twice' = clean_score_data(cleaned_once)
    /\ score_calls' = 2
    /\ UNCHANGED <<score_text, cleaned_once>>
    /\ UNCHANGED <<main_vars, tok_vars, parse_vars, session_vars, pool_vars, rest_vars>>

NextScore ==
    \/ CleanScore
    \/ CleanScoreAgain

SpecScore == InitScore /\ [][NextScore]_vars

\* text wrapped in one pair of parentheses, white space around it apart
wrapped(s) == startswith(strip(s), "(") /\ endswith(strip(s), ")")

\* C18: clean_score_data is idempotent, and without enclosing parentheses it
\* only trims the white space around the text
C18_CleanScoreIdempotent ==
    /\ score_calls = 2 => cleaned_twice = cleaned_once
    /\ (score_calls >= 1 /\ ~wrapped(score_text)) => cleaned_once = strip(score_text)

-----------------------------------------------------------------------------
(* Several match-details requests served at once, each by its own thread    *)
(* and event loop (app.run serves threaded), over the one module-level      *)
(* global_session of http_client.                                            *)

\* global_ref is http_client.global_session: 0 for None, else the number of a
\* ClientSession object; session_closed is the closed flag of each object
InitSession ==
    /\ MainIdle /\ TokIdle /\ ParseIdle /\ ScoreIdle /\ PoolIdle /\ RestIdle
    /\ SessionIdle

\* get_global_session: a new ClientSession when there is none or it is closed
get_global_session(ref, closed) ==
    IF ref = 0 \/ closed[ref]
    THEN [ref |-> Len(closed) + 1, closed |-> Append(closed, FALSE)]
    ELSE [ref |-> ref, closed |-> closed]

\* cleanup_session: close the current global session, whoever made it
cleanup_session(ref, closed) ==
    IF ref # 0 /\ ~closed[ref]
    THEN [ref |-> 0, closed |-> [closed EXCEPT ![ref] = TRUE]]
    ELSE [ref |-> ref, closed |-> closed]

\* fetch_match_data_sync up to the first line of fetch_all_urls: the thread
\* gets its event loop and the coroutine takes the global session
RequestStart(r) ==
    /\ req_pc[r] = "idle"
    /\ LET got == get_global_session(global_ref, session_closed)
       IN  /\ global_ref' = got.ref
           /\ session_closed' = got.closed
           /\ req_session' = [req_session EXCEPT ![r] = got.ref]
    /\ req_pc' = [req_pc EXCEPT ![r] = "session"]
    /\ req_loop' = [req_loop EXCEPT ![r] = "open"]
    /\ UNCHANGED <<in_flight, lost>>
    /\ UNCHANGED <<main_vars, tok_vars, parse_vars, score_vars, pool_vars, rest_vars>>

\* fetch_all_urls from the task list to the await of gather: every
\* sub-request is issued on the session taken before, open or not
IssueSubRequests(r) ==
    /\ req_pc[r] = "session"
    /\ req_pc' = [req_pc EXCEPT ![r] = "fanout"]
    /\ in_flight' = [in_flight EXCEPT ![r] = Len(urls_keys)]
    /\ UNCHANGED <<global_ref, session_closed, req_loop, req_session, lost>>
    /\ UNCHANGED <<main_vars, tok_vars, parse_vars, score_vars, pool_vars, rest_vars>>

\* a sub-request ends on a session that is open
SubRequestDone(r) ==
    /\ req_pc[r] = "fanout"
    /\ in_flight[r] > 0
    /\ ~session_closed[req_session[r]]
    /\ in_flight' = [in_flight EXCEPT ![r] = @ - 1]
    /\ UNCHANGED <<global_ref, session_closed, req_pc, req_loop, req_session, lost>>
    /\ UNCHANGED <<main_vars, tok_vars, parse_vars, score_vars, pool_vars, rest_vars>>

\* a sub-request ends on a session that was closed under it: its connection
\* is gone and fetch_url returns an error
SubRequestLost(r) ==
    /\ req_pc[r] = "fanout"
    /\ in_flight[r] > 0
    /\ session_closed[req_session[r]]
    /\ in_flight' = [in_flight EXCEPT ![r] = @ - 1]
    /\ lost' = [lost EXCEPT ![r] = @ + 1]
    /\ UNCHANGED <<global_ref, session_closed, req_pc, req_loop, req_session>>
    /\ UNCHANGED <<main_vars, tok_vars, parse_vars, score_vars, pool_vars, rest_vars>>

\* gather returned; the finally block of fetch_match_data_sync runs
\* cleanup_session and closes the loop
RequestFinish(r) ==
    /\ req_pc[r] = "fanout"
    /\ in_flight[r] = 0
    /\ LET cleaned == cleanup_session(global_ref, session_closed)
       IN  /\ global_ref' = cleaned.ref
           /\ session_closed' = cleaned.closed
    /\ req_pc' = [req_pc EXCEPT ![r] = "done"]
    /\ req_loop' = [req_loop EXCEPT ![r] = "closed"]
    /\ UNCHANGED <<req_session, in_flight, lost>>
    /\ UNCHANGED <<main_vars, tok_vars, parse_vars, score_vars, pool_vars, rest_vars>>

NextSession ==
    \/ \E r \in Requests : RequestStart(r)
    \/ \E r \in Requests : IssueSubRequests(r)
    \/ \E r \in Requests : SubRequestDone(r)
    \/ \E r \in Requests : SubRequestLost(r)
    \/ \E r \in Requests : RequestFinish(r)

SpecSession == InitSession /\ [][NextSession]_vars

\* C19: while a request has sub-requests in flight its session is open, and
\* no sub-request of it fails because another request finished
C19_SessionStaysUsable ==
    \A r \in Requests :
        /\ (req_pc[r] = "fanout" /\ in_flight[r] > 0) => ~session_closed[req_session[r]]
        /\ lost[r] = 0

\* C28: whenever a request finishes, the global session is none, the session
\* the request used is closed and its event loop is closed; a request that
\* starts when no other is being served makes a session of its own; and no
\* request issues its sub-requests on a closed session
C28_FreshSessionEachCall ==
    [][\A r \in Requests :
          /\ (req_pc[r] = "fanout" /\ req_pc'[r] = "done") =>
                /\ global_ref' = 0
                /\ session_closed'[req_session[r]]
                /\ req_loop'[r] = "closed"
          /\ (req_pc[r] = "idle" /\ req_pc'[r] = "session"
                /\ \A o \in Requests : req_pc[o] \in {"idle", "done"}) =>
                /\ req_session'[r] = Len(session_closed')
                /\ Len(session_closed') = Len(session_closed) + 1
          /\ (req_pc[r] = "session" /\ req_pc'[r] = "fanout") =>
                ~session_closed[req_session[r]]]_vars

-----------------------------------------------------------------------------
(* One batch in logical time: every sub-request takes latency[i] units from *)
(* the moment its GET is issued; the steps of the event loop take none.     *)

Latencies == 1..MaxLatency

\* TCPConnector(limit, limit_per_host): every url of the batch is on one host
\* a connector that hands out one connection at a time
connection_free_serial(in_use) == in_use < Min(1, limit_per_host)

connection_free(in_use) == in_use < Min(limit, limit_per_host)

InitPool ==
    /\ MainIdle /\ TokIdle /\ ParseIdle /\ ScoreIdle /\ SessionIdle /\ RestIdle
    /\ pool_pc = "gather"
    /\ latency \in [Pos -> Latencies]
    /\ fetch_state = [i \in Pos |-> "created"]
    /\ started_at = [i \in Pos |-> 0]
    /\ finished_at = [i \in Pos |-> 0]
    /\ clock = 0
    /\ batch_end = 0

InUse == Cardinality({i \in Pos : fetch_state[i] = "running"})

\* a task the loop can still run up to its GET without any time passing
Startable(i) ==
    /\ fetch_state[i] = "created"
    /\ \A j \in 1..(i - 1) : fetch_state[j] # "created"
    /\ connection_free(InUse)

\* the loop runs the next task of gather up to session.get
FetchStart(i) ==
    /\ pool_pc = "gather"
    /\ Startable(i)
    /\ fetch_state' = [fetch_state EXCEPT ![i] = "running"]
    /\ started_at' = [started_at EXCEPT ![i] = clock]
    /\ UNCHANGED <<pool_pc, latency, finished_at, clock, batch_end>>
    /\ UNCHANGED <<main_vars, tok_vars, parse_vars, score_vars, session_vars, rest_vars>>

\* the response of a GET arrives latency[i] after the GET was issued
FetchComplete(i) ==
    /\ pool_pc = "gather"
    /\ fetch_state[i] = "running"
    /\ \A j \in Pos : ~Startable(j)
    /\ clock = started_at[i] + latency[i]
    /\ fetch_state' = [fetch_state EXCEPT ![i] = "done"]
    /\ finished_at' = [finished_at EXCEPT ![i] = clock]
    /\ UNCHANGED <<pool_pc, latency, started_at, clock, batch_end>>
    /\ UNCHANGED <<main_vars, tok_vars, parse_vars, score_vars, session_vars, rest_vars>>

\* time passes while the loop has nothing to run
Tick ==
    /\ pool_pc = "gather"
    /\ \A j \in Pos : ~Startable(j)
    /\ \E i \in Pos : fetch_state[i] = "running"
    /\ \A i \in Pos : fetch_state[i] = "running" => clock < started_at[i] + latency[i]
    /\ clock' = clock + 1
    /\ UNCHANGED <<pool_pc, latency, fetch_state, started_at, finished_at, batch_end>>
    /\ UNCHANGED <<main_vars, tok_vars, parse_vars, score_vars, session_vars, rest_vars>>

\* gather returns when every task is done
GatherReturn ==
    /\ pool_pc = "gather"
    /\ \A i \in Pos : fetch_state[i] = "done"
    /\ batch_end' = clock
    /\ pool_pc' = "returned"
    /\ UNCHANGED <<latency, fetch_state, started_at, finished_at, clock>>
    /\ UNCHANGED <<main_vars, tok_vars, parse_vars, score_vars, session_vars, rest_vars>>

NextPool ==
    \/ \E i \in Pos : FetchStart(i)
    \/ \E i \in Pos : FetchComplete(i)
    \/ Tick
    \/ GatherReturn

SpecPool == InitPool /\ [][NextPool]_vars

RECURSIVE SumUpTo(_, _)
SumUpTo(f, n) == IF n = 0 THEN 0 ELSE f[n] + SumUpTo(f, n - 1)

MaxOf(f) == CHOOSE m \in {f[i] : i \in Pos} : \A i \in Pos : f[i] <= m

\* C20: every sub-request of a batch is issued at the start of the batch,
\* before any of them completes, and the batch ends at the latest completion
\* (the longest latency), not at the sum of the latencies
C20_BatchEndsAtMax ==
    /\ \A i \in Pos : fetch_state[i] # "created" => started_at[i] = 0
    /\ (\E i \in Pos : fetch_state[i] = "done") =>
            \A j \in Pos : fetch_state[j] # "created"
    /\ pool_pc = "returned" =>
            /\ batch_end = MaxOf(finished_at)
            /\ batch_end = MaxOf(latency)
            /\ Len(urls_keys) > 1 => batch_end < SumUpTo(latency, Len(urls_keys))

C20_Witness ==
    /\ pool_pc = "returned"
    /\ \E i, j \in Pos : latency[i] < latency[j]
    /\ batch_end = MaxOf(latency)
    /\ batch_end < SumUpTo(latency, Len(urls_keys))


-----------------------------------------------------------------------------
(* Properties *)

\* a match-details request with a valid id has been answered
BatchDone == pc = "done" /\ request.route = "match" /\ request.match_id > 0

Failed(resp) == resp.kind \in {"conn_error", "timeout", "http_status"}

\* a 2xx answer on a JSON endpoint whose body is not JSON
Undecodable(i) ==
    /\ urls_keys[i] # "h2h_details"
    /\ upstream[i].kind = "ok"
    /\ ~json_parses(upstream[i].body)

\* fetch_url on what the upstream answered at position i, by itself
OwnResult(i) ==
    fetch_url(urls_keys[i], url_of(urls_keys[i], request.match_id), upstream[i],
              tasks[i].result.fetch_time)

\* the entries that one result, processed alone, adds to a fresh bundle
OwnEntries(i) ==
    LET fresh == new_data(request.match_id)
        alone == process_result(fresh, OwnResult(i))
    IN  {alone[n] : n \in (Len(fresh) + 1)..Len(alone)}

\* C1: whatever the mix of successes and failures, fetch_all_urls returns as
\* many results as there are requests, one for each submitted key, and the
\* bundle times each key once
C1_OneResultPerKey ==
    BatchDone =>
        /\ Len(results) = Len(urls_keys)
        /\ {results[n].key : n \in 1..Len(results)} = {urls_keys[i] : i \in Pos}
        /\ \A m, n \in 1..Len(results) : results[m].key = results[n].key => m = n
        /\ LET times == dict_get(data, "fetch_times").dict
           IN  /\ Len(times) = Len(urls_keys)
               /\ \A i \in Pos : dict_has(times, urls_keys[i])

\* a batch has returned with failures and successes mixed
C1_Witness ==
    /\ BatchDone
    /\ \E i, j \in Pos : Failed(upstream[i]) /\ upstream[j].kind = "ok"
    /\ Len(results) = Len(urls_keys)

\* C2: the tag and the content recorded for a key are those fetch_url gives for
\* the upstream's answer on that key alone, whatever happened to the other
\* keys, and the bundle holds for it what that result alone puts there
C2_SiblingIndependent ==
    \A i \in Pos :
        /\ tasks[i].state = "settled" =>
              /\ upstream[i].kind # "none"
              /\ tasks[i].result.content_type = OwnResult(i).content_type
              /\ tasks[i].result.content = OwnResult(i).content
        /\ BatchDone =>
              \A e \in OwnEntries(i) : dict_has(data, e.k) /\ dict_get(data, e.k) = e.v

\* a key succeeded in a batch in which another key failed before it
C2_Witness ==
    /\ BatchDone
    /\ \E i, j \in Pos :
          /\ i # j
          /\ Failed(upstream[i])
          /\ results[j].key = urls_keys[j]
          /\ results[j].content_type \in {"json", "html"}
          /\ \E m, n \in 1..Len(order) : m < n /\ order[m] = i /\ order[n] = j

\* C3: no task is ever cancelled, and once the batch has returned every task
\* has settled with a result of its own
C3_ReturnsAfterAllSettled ==
    /\ \A i \in Pos : tasks[i].state # "cancelled"
    /\ BatchDone =>
          /\ \A i \in Pos : tasks[i].state = "settled"
          /\ \A n \in 1..Len(results) : results[n].content_type # "pending"

\* the first task to complete failed, and the batch returned with all settled
C3_Witness ==
    /\ BatchDone
    /\ Failed(upstream[order[1]])
    /\ \E i \in Pos : upstream[i].kind = "ok"
    /\ \A i \in Pos : tasks[i].state = "settled"

\* the document of the h2h_details page, when the page was fetched
H2hFetched ==
    /\ BatchDone
    /\ upstream[1].kind = "ok"
    /\ results[1].key = "h2h_details"
    /\ results[1].content_type = "html"

H2hDoc == BeautifulSoup(results[1].content)

\* C4: when the page was fetched, every section that parses by itself is in
\* the bundle with its own value, whatever happened to its sibling sections:
\* match_info and fixture at the top, the three match lists, the injuries and
\* the lineups under h2h_details
C4_SiblingSectionsKept ==
    H2hFetched =>
        /\ dict_has(data, "match_info")
        /\ dict_get(data, "match_info") = parse_match_info(H2hDoc)
        /\ dict_has(data, "fixture")
        /\ dict_get(data, "fixture") = parse_fixture(H2hDoc)
        /\ dict_has(data, "h2h_details")
        /\ LET h == dict_get(data, "h2h_details")
           IN  /\ "head_to_head" \in DOMAIN h
               /\ h.head_to_head = parse_match_list_table(H2hDoc, "table_v3")
               /\ h.home_team_previous_matches = parse_match_list_table(H2hDoc, "table_v1")
               /\ h.away_team_previous_matches = parse_match_list_table(H2hDoc, "table_v2")
               /\ h.injury_and_suspension = parse_injury_suspension(H2hDoc)
               /\ h.last_match_lineups = parse_last_match_lineups(H2hDoc)

\* every sub-request of the batch ended with the tag 'error'
AllFailed == \A n \in 1..Len(results) : results[n].content_type = "error"

\* C5: the answer to a match-details request is a single top-level error
\* exactly when every sub-request of the batch failed
C5_TopLevelErrorIffAllFailed ==
    BatchDone => (response.error <=> AllFailed)

\* the envelope of a date response from which parse_date_response gets nothing:
\* text that is not JSON, JSON that is no object, a Data field that is no string
Unparseable(envelope) == envelope.json # "object" \/ envelope.field = "null"

DateDone == pc = "done" /\ request.route = "date" /\ date_upstream.kind # "none"

\* C6: a date listing whose fetch failed, or whose envelope does not parse, is
\* answered with one top-level error that lists no match, and the cache holds
\* nothing for that date
C6_DateFailureIsTopLevel ==
    (DateDone /\ (date_upstream.kind # "ok" \/ Unparseable(date_upstream.envelope))) =>
        /\ response.error
        /\ response.status = 500
        /\ dict_keys(response.body) = <<"error">>
        /\ ~dict_has(response.body, "matches")
        /\ ~cache_has(cache, <<"matches_date", request.date_str>>)

\* the fetch succeeded with a body that is not JSON, and the caller got the error
C6_Witness ==
    /\ DateDone
    /\ date_upstream.kind = "ok"
    /\ date_upstream.envelope.json = "invalid"
    /\ response.error
    /\ cache = {}

\* C7: a request is issued at most once, a task that runs or has settled has
\* issued exactly one, and a returned batch has one completion per request
C7_NoRetry ==
    /\ \A i \in Pos : attempts[i] <= 1
    /\ \A i \in Pos : tasks[i].state \in {"running", "settled"} => attempts[i] = 1
    /\ BatchDone =>
          /\ Len(order) = Len(urls_keys)
          /\ \A i \in Pos : Cardinality({n \in 1..Len(order) : order[n] = i}) = 1

\* a batch returned in which a sub-request failed, after one GET for it
C7_Witness ==
    /\ BatchDone
    /\ \E i \in Pos : Failed(upstream[i]) /\ attempts[i] = 1
    /\ \E i \in Pos : Undecodable(i) /\ attempts[i] = 1

\* C8: the bundle of a returned batch is the one built from the per-key
\* outcomes taken in the order of the urls, whatever the order of completion
C8_CompletionOrderIrrelevant ==
    BatchDone =>
        data = process_results(new_data(request.match_id), [i \in Pos |-> OwnResult(i)])

\* a batch returned whose requests completed in the reverse of their order
C8_Witness ==
    /\ BatchDone
    /\ Len(order) = Len(urls_keys)
    /\ \A n \in 1..Len(order) : order[n] = Len(order) + 1 - n
    /\ \E i \in Pos : Failed(upstream[i])
    /\ \E i \in Pos : upstream[i].kind = "ok"

C10_DecodeErrorKeepsPreview ==
    \A i \in Pos :
        (tasks[i].state = "settled" /\ Undecodable(i)) =>
            /\ tasks[i].result.content_type = "error"
            /\ "content" \in DOMAIN tasks[i].result.content
            /\ tasks[i].result.content.content = text_slice(upstream[i].body, PreviewLen)

\* C11: a sub-request declared as JSON whose response arrives with a content
\* type that is neither JSON nor JavaScript is parsed strictly as JSON: a body
\* that is valid JSON is tagged "json" with the parsed value, and only a body
\* that fails to parse is tagged "error".
Mislabelled(i) ==
    /\ urls_keys[i] # "h2h_details"
    /\ upstream[i].kind = "ok"
    /\ upstream[i].ctype \notin {"application/json", "text/javascript"}

C11_FallbackParse ==
    \A i \in Pos :
        (tasks[i].state = "settled" /\ Mislabelled(i)) =>
            IF json_parses(upstream[i].body)
            THEN /\ tasks[i].result.content_type = "json"
                 /\ tasks[i].result.content = upstream[i].body
            ELSE tasks[i].result.content_type = "error"

C11_Witness ==
    \E i \in Pos :
        /\ tasks[i].state = "settled"
        /\ Mislabelled(i)
        /\ json_parses(upstream[i].body)
        /\ tasks[i].result.content_type = "json"

\* the explicit marker of a section that was not found: a dict with an error key
is_not_found(v) == "error" \in DOMAIN v

\* C12: every HTML extractor (match header, fixture lists, standings, the three
\* historical match lists, injuries, lineups) answers a document that lacks
\* its container with an explicit not-found marker {error: ...}
C12_NotFoundMarker ==
    H2hFetched =>
        LET doc == H2hDoc
        IN  /\ ~doc.fbheader => is_not_found(parse_match_info(doc))
            /\ ~doc.porletP12 => is_not_found(parse_fixture(doc))
            /\ ~doc.porletP4 =>
                    /\ ~parse_standings(doc).raised
                    /\ is_not_found(parse_standings(doc).value)
            /\ \A table_id \in {"table_v1", "table_v2", "table_v3"} :
                    ~doc[table_id] => is_not_found(parse_match_list_table(doc, table_id))
            /\ ~doc.porletP13 => is_not_found(parse_injury_suspension(doc))
            /\ ~doc.porletP14 => is_not_found(parse_last_match_lineups(doc))

\* C13: no HTML extractor lets an exception leave it, whatever the document,
\* a standings table with fewer than two rows or with the "HT" header row
\* first included
C13_ExtractorsNeverRaise ==
    H2hFetched =>
        /\ ~parse_standings(H2hDoc).raised
        /\ ~parse_h2h_details(H2hDoc).raised
        /\ \A table \in {H2hDoc.home_table, H2hDoc.guest_table} :
                table.present => ~parse_standings_table(table).raised

\* the records of the blob that _parse_match_data turns into a match
Delivered(blob) == {n \in 1..Len(blob) : blob[n].nfields >= MinFields}

\* C17: a record of at least seven fields whose datetime does not parse is in
\* the matches the date query returns, with its id and a null kickoff, and is
\* counted in match_count
C17_NullKickoffDelivered ==
    (DateDone /\ date_upstream.kind = "ok" /\ date_upstream.envelope.field = "blob"
              /\ ~Unparseable(date_upstream.envelope)) =>
        LET blob == date_upstream.envelope.blob
        IN  /\ ~response.error
            /\ dict_has(response.body, "matches")
            /\ LET matches == dict_get(response.body, "matches").list
               IN  \A n \in Delivered(blob) :
                       ~blob[n].time_ok =>
                           \E j \in 1..Len(matches) :
                               matches[j].match_id = n /\ ~matches[j].match_time
            /\ dict_get(response.body, "match_count").int = Cardinality(Delivered(blob))

\* ---------------------------------------------------------------------------
\* One record of quoted fields, its id, league, home-team and datetime fields
\* varied, and one that lacks its seventh field
\* ---------------------------------------------------------------------------

RecordBlobs ==
    {<<SourceRecord(1, SubSeq(<<id, league, <<"2">>, <<"3">>, home, <<"G">>, time>>, 1, n),
                    TRUE, TRUE, <<>>)>>
     : id \in {<<"7">>, <<"x">>, <<>>, <<"-", "1">>, <<" ", "7">>},
       league \in {<<"5">>, <<"L">>, <<>>},
       home \in {<<"H">>, <<>>},
       time \in {GoodTime, BadTime},
       n \in {MinFields - 1, MinFields}}

InitRecord ==
    /\ MainIdle /\ TokIdle /\ ScoreIdle /\ SessionIdle /\ PoolIdle /\ RestIdle
    /\ \E src \in RecordBlobs : ParseStart(src)

SpecRecord == InitRecord /\ [][NextParse]_vars

\* C21: every record the match parser accepts is mapped by position (field 0
\* to the match id, 1 to the league id, 2 and 3 to the team ids, 4 and 5 to
\* the team names, 6 to the raw datetime string) and carries an integer
\* match_id; only the league and team ids may be null
C21_PositionalIntegerId ==
    parse_pc = "returned" =>
        \A j \in 1..Len(match_list) :
            LET m == match_list[j]
                f == blob_src[1].fields
                from(id, field) == ~id.none /\ isdigit(field) /\ id.int = digits_value(field)
            IN  /\ from(m.match_id, f[1])
                /\ m.league_id.none \/ from(m.league_id, f[2])
                /\ m.home_team_id.none \/ from(m.home_team_id, f[3])
                /\ m.away_team_id.none \/ from(m.away_team_id, f[4])
                /\ m.home_team = f[5]
                /\ m.away_team = f[6]
                /\ m.match_datetime_raw = f[7]

\* ---------------------------------------------------------------------------
\* parse_standings_table on tables written cell by cell
\* ---------------------------------------------------------------------------

Cell(tag, text) == [tag |-> tag, text |-> text]

contains(s, sub) ==
    \E i \in 1..(Len(s) - Len(sub) + 1) : SubSeq(s, i, i + Len(sub) - 1) = sub

\* row.text: the texts of the cells of the row, one after the other
RECURSIVE row_text(_)
row_text(cells) ==
    IF cells = <<>> THEN <<>> ELSE Head(cells).text \o row_text(Tail(cells))

\* what parse_standings_table reads of a row: find_all('th'), find_all('td')
\* and "HT" in row.text
soup_row(cells) ==
    Row(Len(SelectSeq(cells, LAMBDA c : c.tag = "th")),
        Len(SelectSeq(cells, LAMBDA c : c.tag = "td")),
        contains(row_text(cells), <<"H", "T">>))

\* title row, full-time header row, "HT" header row, data row, data row of a
\* team with HT in its name, and the same with the name in a th cell
TableRows ==
    {<<Cell("th", <<"S">>)>>,
     <<Cell("th", <<"F">>), Cell("th", <<"P">>)>>,
     <<Cell("th", <<" ", "H", "T">>), Cell("th", <<"P">>)>>,
     <<Cell("td", <<"A">>), Cell("td", <<"3">>)>>,
     <<Cell("td", <<"A", "H", "T">>), Cell("td", <<"3">>)>>,
     <<Cell("th", <<"A", "H", "T">>), Cell("td", <<"3">>)>>}

StandingsTableCall ==
    /\ extract_pc = "called" /\ extract_fn = "parse_standings_table"
    /\ table_src \in UNION {[1..n -> TableRows] : n \in 0..MaxTableRows}
    /\ table_out = <<>>
    /\ row_src = <<>> /\ row_out = <<>>
    /\ span_src = <<>> /\ score_info = <<>>

StandingsTableReturn ==
    /\ extract_pc = "called" /\ extract_fn = "parse_standings_table"
    /\ extract_pc' = "returned"
    /\ table_out' = parse_standings_table(
                        Table([i \in 1..Len(table_src) |-> soup_row(table_src[i])]))
    /\ UNCHANGED <<extract_fn, table_src, row_src, row_out, span_src, score_info>>
    /\ UNCHANGED <<main_vars, tok_vars, parse_vars, score_vars, session_vars, pool_vars,
                   rate_vars, cache_vars>>

\* 1-based index of the first row with a header cell whose text is "HT", 0 if none
ht_header_row(rows) ==
    LET is_ht(cells) == \E k \in 1..Len(cells) :
                            cells[k].tag = "th" /\ strip(cells[k].text) = <<"H", "T">>
    IN  IF \E i \in 1..Len(rows) : is_ht(rows[i])
        THEN CHOOSE i \in 1..Len(rows) :
                is_ht(rows[i]) /\ \A j \in 1..(i - 1) : ~is_ht(rows[j])
        ELSE 0

\* C22: the table is split at the row whose header cell equals "HT": the rows
\* of the full-time block lie before it and those of the half-time block after
\* it, a row that only contains the letters HT inside other text is not the
\* split row, and no row is in both blocks
C22_SplitAtHtHeader ==
    (extract_pc = "returned" /\ extract_fn = "parse_standings_table"
                             /\ ~table_out.raised) =>
        LET s == ht_header_row(table_src)
            ft == table_out.value.full_time
            ht == table_out.value.half_time
        IN  /\ s = 0 => ft = <<>> /\ ht = <<>>
            /\ \A k \in 1..Len(ft) : ft[k] < s
            /\ \A k \in 1..Len(ht) : ht[k] > s
            /\ \A k \in 1..Len(ft) : \A l \in 1..Len(ht) : ft[k] # ht[l]

\* ---------------------------------------------------------------------------
\* parse_match_list_table on one data row: the result column
\* ---------------------------------------------------------------------------

Placeholders == {<<>>, <<"-">>, <<"?">>}

\* the cell positions the result is looked for at (0-based in the code)
ResultCells == <<7, 8, 9, 10, 11, 12>>

\* the first candidate cell, in order, whose text is no placeholder; 0 if none
first_real(cells, k) ==
    LET real(i) == ResultCells[i] <= Len(cells)
                   /\ strip(cells[ResultCells[i]]) \notin Placeholders
    IN  IF \E i \in k..Len(ResultCells) : real(i)
        THEN ResultCells[CHOOSE i \in k..Len(ResultCells) :
                            real(i) /\ \A j \in k..(i - 1) : ~real(j)]
        ELSE 0

\* result_text of a row of at least eight cells
result_text(cells) ==
    LET first == IF Len(cells) > 11 THEN strip(cells[12])
                 ELSE IF Len(cells) > 7 THEN strip(cells[8])
                 ELSE <<>>
    IN  IF first # <<>> THEN first
        ELSE IF first_real(cells, 1) # 0 THEN strip(cells[first_real(cells, 1)])
        ELSE <<>>

\* the rows the table of this one data row yields
match_list_rows(cells) ==
    IF Len(cells) < 8 THEN <<>> ELSE <<[result |-> result_text(cells)]>>

CellTexts == {<<>>, <<"-">>, <<"?">>, <<" ", "W">>}

\* rows of 7, 8, 10 and 12 cells; the first six cells are not result cells
MatchListCall ==
    /\ extract_pc = "called" /\ extract_fn = "parse_match_list_table"
    /\ row_src \in UNION {[1..n -> CellTexts] : n \in {1, 2, 4, MaxResultCells}}
    /\ row_out = <<>>
    /\ table_src = <<>> /\ table_out = <<>>
    /\ span_src = <<>> /\ score_info = <<>>

MatchListReturn ==
    /\ extract_pc = "called" /\ extract_fn = "parse_match_list_table"
    /\ extract_pc' = "returned"
    /\ row_out' = match_list_rows([i \in 1..6 |-> <<"x">>] \o row_src)
    /\ UNCHANGED <<extract_fn, table_src, table_out, row_src, span_src, score_info>>
    /\ UNCHANGED <<main_vars, tok_vars, parse_vars, score_vars, session_vars, pool_vars,
                   rate_vars, cache_vars>>

\* ---------------------------------------------------------------------------
\* parse_match_info: the first-half score of the header
\* ---------------------------------------------------------------------------

NoSpan == [found |-> FALSE, text |-> <<>>]
Span(text) == [found |-> TRUE, text |-> text]

\* the three first-half entries of score_info
ht_score_info(span) ==
    LET ht_score_full == strip(span.text)
        empty == [ht_score |-> <<>>, ht_home_score |-> <<>>, ht_away_score |-> <<>>]
    IN  IF ~span.found THEN empty
        ELSE IF "-" \in {ht_score_full[i] : i \in 1..Len(ht_score_full)}
        THEN [ht_score |-> ht_score_full,
              ht_home_score |-> split(ht_score_full, "-")[1],
              ht_away_score |-> split(ht_score_full, "-")[2]]
        ELSE [empty EXCEPT !.ht_score = ht_score_full]

MatchInfoCall ==
    /\ extract_pc = "called" /\ extract_fn = "parse_match_info"
    /\ span_src \in {NoSpan} \cup {Span(t) : t \in StringsUpTo({"1", "0", "-", " "}, MaxHtLen)}
    /\ score_info = <<>>
    /\ table_src = <<>> /\ table_out = <<>>
    /\ row_src = <<>> /\ row_out = <<>>

MatchInfoReturn ==
    /\ extract_pc = "called" /\ extract_fn = "parse_match_info"
    /\ extract_pc' = "returned"
    /\ score_info' = ht_score_info(span_src)
    /\ UNCHANGED <<extract_fn, table_src, table_out, row_src, row_out, span_src>>
    /\ UNCHANGED <<main_vars, tok_vars, parse_vars, score_vars, session_vars, pool_vars,
                   rate_vars, cache_vars>>

InitExtract ==
    /\ MainIdle /\ TokIdle /\ ParseIdle /\ ScoreIdle /\ SessionIdle /\ PoolIdle
    /\ RateIdle /\ CacheIdle
    /\ \/ StandingsTableCall
       \/ MatchListCall
       \/ MatchInfoCall

NextExtract ==
    \/ StandingsTableReturn
    \/ MatchListReturn
    \/ MatchInfoReturn

SpecExtract == InitExtract /\ [][NextExtract]_vars

\* C24: the two first-half sub-scores are filled only when the first-half
\* score text has text on both sides of its '-' separator; with an empty side
\* ('1-', '-') or without a separator both stay empty, and the full text is
\* kept in either case
C24_SubScoresNeedBothHalves ==
    (extract_pc = "returned" /\ extract_fn = "parse_match_info" /\ span_src.found) =>
        LET full == strip(span_src.text)
            halves == split(full, "-")
            both == Len(halves) >= 2 /\ halves[1] # <<>> /\ halves[2] # <<>>
        IN  /\ score_info.ht_score = full
            /\ both => /\ score_info.ht_home_score = halves[1]
                       /\ score_info.ht_away_score = halves[2]
            /\ ~both => /\ score_info.ht_home_score = <<>>
                        /\ score_info.ht_away_score = <<>>


\* C23: the result of a historical match row is no blank or placeholder value
\* ('', '-', '?') when some candidate result cell of the row holds a real
\* value; it is the first candidate, in order, that is no placeholder
C23_ResultSkipsPlaceholders ==
    (extract_pc = "returned" /\ extract_fn = "parse_match_list_table") =>
        \A k \in 1..Len(row_out) :
            (\E c \in 1..Len(row_src) : strip(row_src[c]) \notin Placeholders) =>
                row_out[k].result \notin Placeholders

\* ---------------------------------------------------------------------------
\* AdvancedRateLimit, the middleware that consults it and the admin stats
\* ---------------------------------------------------------------------------

\* del d[k]
dict_del(d, k) == SelectSeq(d, LAMBDA e : e.k # k)

\* AdvancedRateLimit(): requests is a defaultdict(deque), blocked_ips a dict
AdvancedRateLimit == [requests |-> <<>>, blocked_ips |-> <<>>]

\* a block that has lasted as long as half the block time only
still_blocked_half(t, since) == t - since < block_seconds \div 2

\* a block that never ends
still_blocked_forever(t, since) == TRUE

\* now - self.blocked_ips[ip] < 3600
still_blocked(t, since) == t - since < block_seconds

\* now - self.requests[ip][0] > window
expired(t, first, window) == t - first > window

\* the while loop: popleft() as long as the first entry has left the window
popleft_expired(q, t, window) ==
    IF \A i \in 1..Len(q) : expired(t, q[i], window) THEN <<>>
    ELSE LET k == CHOOSE i \in 1..Len(q) :
                      /\ ~expired(t, q[i], window)
                      /\ \A j \in 1..(i - 1) : expired(t, q[j], window)
         IN  SubSeq(q, k, Len(q))

\* a limit that lets one more request through
over_limit_late(n, lim) == n > lim

\* len(self.requests[ip]) >= limit
over_limit(n, lim) == n >= lim

\* is_allowed(ip, limit, window) at time t: the answer and the limiter after it
is_allowed(self, ip, lim, window, t) ==
    IF dict_has(self.blocked_ips, ip) /\ still_blocked(t, dict_get(self.blocked_ips, ip))
    THEN [allowed |-> FALSE, self |-> self]
    ELSE LET unblocked == dict_del(self.blocked_ips, ip)
             history == IF dict_has(self.requests, ip)
                        THEN dict_get(self.requests, ip) ELSE <<>>
             kept == popleft_expired(history, t, window)
         IN  IF over_limit(Len(kept), lim)
             THEN [allowed |-> FALSE,
                   self |-> [requests |-> dict_set(self.requests, ip, kept),
                             blocked_ips |-> dict_set(unblocked, ip, t)]]
             ELSE [allowed |-> TRUE,
                   self |-> [requests |-> dict_set(self.requests, ip, Append(kept, t)),
                             blocked_ips |-> unblocked]]

ClientIps == {"10.0.0.1", "10.0.0.2"}

NoCall == [ip |-> "", at |-> 0, allowed |-> FALSE, was_blocked |-> FALSE,
           blocked_at |-> 0, unchanged |-> TRUE]

\* the arguments the calls of one behaviour pass, who calls and how far the
\* clock steps: the defaults, from one client, in steps of a block time; or a
\* small limit and a window of half, once or twice the block time, from
\* every client, in steps of half a block time
RateArguments ==
    {[limit |-> default_limit, window |-> default_window,
      clients |-> {CHOOSE ip \in ClientIps : TRUE}, step |-> block_seconds]}
    \cup {[limit |-> l, window |-> w, clients |-> ClientIps,
            step |-> block_seconds \div 2] :
            l \in 1..MaxLimit,
            w \in {block_seconds \div 2, block_seconds, 2 * block_seconds}}

InitRate ==
    /\ MainIdle /\ TokIdle /\ ParseIdle /\ ScoreIdle /\ SessionIdle /\ PoolIdle
    /\ ExtractIdle /\ CacheIdle
    /\ rate_args \in RateArguments
    /\ rate_now = 0
    /\ mw_limiter = AdvancedRateLimit
    /\ rate_limiter = AdvancedRateLimit
    /\ last_call = NoCall
    /\ allowed_log = [ip \in ClientIps |-> <<>>]
    /\ stats = <<>>

\* before_request of a request from ip: one is_allowed call on the limiter
\* of the middleware
BeforeRequest(ip) ==
    LET got == is_allowed(mw_limiter, ip, rate_args.limit, rate_args.window, rate_now)
    IN  /\ mw_limiter' = got.self
        /\ last_call' = [ip |-> ip, at |-> rate_now, allowed |-> got.allowed,
                         was_blocked |-> dict_has(mw_limiter.blocked_ips, ip),
                         blocked_at |-> IF dict_has(mw_limiter.blocked_ips, ip)
                                        THEN dict_get(mw_limiter.blocked_ips, ip) ELSE 0,
                         unchanged |-> got.self = mw_limiter]
        /\ allowed_log' = IF got.allowed
                          THEN [allowed_log EXCEPT ![ip] = Append(@, rate_now)]
                          ELSE allowed_log

\* a request to a route other than the admin stats
Request(ip) ==
    /\ ip \in rate_args.clients
    /\ BeforeRequest(ip)
    /\ UNCHANGED <<rate_args, rate_now, rate_limiter, stats>>
    /\ UNCHANGED <<main_vars, tok_vars, parse_vars, score_vars, session_vars, pool_vars,
                   extract_vars, cache_vars>>

\* GET /api/v1/admin/stats: the middleware first, then the view, which reads
\* the module-level rate_limiter
AdminStats(ip) ==
    /\ ip \in rate_args.clients
    /\ BeforeRequest(ip)
    /\ stats' = IF is_allowed(mw_limiter, ip, rate_args.limit, rate_args.window,
                              rate_now).allowed
                THEN [active_requests |-> Len(rate_limiter.requests),
                      blocked_ips |-> Len(rate_limiter.blocked_ips),
                      blocked_ips_list |-> dict_keys(rate_limiter.blocked_ips)]
                ELSE stats
    /\ UNCHANGED <<rate_args, rate_now, rate_limiter>>
    /\ UNCHANGED <<main_vars, tok_vars, parse_vars, score_vars, session_vars, pool_vars,
                   extract_vars, cache_vars>>

\* time passes; the log keeps the calls allowed within the last window
RateTick ==
    /\ rate_now < MaxTicks * rate_args.step
    /\ rate_now' = rate_now + rate_args.step
    /\ allowed_log' = [ip \in ClientIps |->
                          SelectSeq(allowed_log[ip],
                                    LAMBDA at : rate_now' - at <= rate_args.window)]
    /\ UNCHANGED <<rate_args, mw_limiter, rate_limiter, last_call, stats>>
    /\ UNCHANGED <<main_vars, tok_vars, parse_vars, score_vars, session_vars, pool_vars,
                   extract_vars, cache_vars>>

NextRate ==
    \/ \E ip \in ClientIps : Request(ip)
    \/ \E ip \in ClientIps : AdminStats(ip)
    \/ RateTick

SpecRate == InitRate /\ [][NextRate]_vars

\* the limiter entries of one ip: its history and its block time
entries_of(self, ip) ==
    [history |-> IF dict_has(self.requests, ip) THEN dict_get(self.requests, ip) ELSE <<>>,
     blocked |-> dict_has(self.blocked_ips, ip),
     since |-> IF dict_has(self.blocked_ips, ip) THEN dict_get(self.blocked_ips, ip) ELSE 0]

\* C25: for every ip, the calls answered True within any interval of length
\* window are never more than limit, and a call for one ip changes neither
\* the entries of another ip nor the answer another ip would get
C25_WindowLimit ==
    /\ [](rate_args # <<>> =>
            \A ip \in ClientIps : Len(allowed_log[ip]) <= rate_args.limit)
    /\ [][\A other \in ClientIps :
            (mw_limiter' # mw_limiter /\ other # last_call'.ip) =>
                /\ entries_of(mw_limiter', other) = entries_of(mw_limiter, other)
                /\ \A t \in {rate_now, rate_now + block_seconds} :
                      is_allowed(mw_limiter', other, rate_args.limit,
                                 rate_args.window, t).allowed
                      = is_allowed(mw_limiter, other, rate_args.limit,
                                   rate_args.window, t).allowed]_vars

\* an ip that has used up a limit of two within the window and is refused,
\* while the other ip has been served
C25_Witness ==
    /\ rate_args # <<>>
    /\ rate_args.limit = 2
    /\ \E ip \in ClientIps :
          /\ last_call.ip = ip /\ ~last_call.allowed /\ ~last_call.was_blocked
          /\ Len(allowed_log[ip]) = 2
          /\ \E other \in ClientIps \ {ip} : Len(allowed_log[other]) = 1

\* C26: a call of a blocked ip before 3600 seconds from its block time is
\* answered False and leaves the history of the ip and its block time as they
\* were
C26_BlockedCallsChangeNothing ==
    (rate_args # <<>> /\ last_call.was_blocked
                      /\ last_call.at - last_call.blocked_at < block_seconds) =>
        /\ ~last_call.allowed
        /\ last_call.unchanged

\* a blocked ip calls half a block time after it was blocked, and is refused
C26_Witness ==
    /\ rate_args # <<>>
    /\ last_call.was_blocked
    /\ last_call.at > last_call.blocked_at
    /\ last_call.at - last_call.blocked_at < block_seconds
    /\ ~last_call.allowed

DefaultArguments ==
    /\ rate_args # <<>>
    /\ rate_args.limit = default_limit
    /\ rate_args.window = default_window

\* C27, as stated: with the default limit and window, the first call of a
\* blocked ip at or after 3600 seconds from its block time is answered True
\* and leaves the ip unblocked
C27_AtOrAfter ==
    (DefaultArguments /\ last_call.was_blocked
                      /\ last_call.at - last_call.blocked_at >= block_seconds) =>
        /\ last_call.allowed
        /\ ~dict_has(mw_limiter.blocked_ips, last_call.ip)

\* C27: with the default limit and window, the first call of a blocked ip
\* more than 3600 seconds after its block time is answered True and leaves
\* the ip unblocked
C27_BlockEnds ==
    (DefaultArguments /\ last_call.was_blocked
                      /\ last_call.at - last_call.blocked_at > block_seconds) =>
        /\ last_call.allowed
        /\ ~dict_has(mw_limiter.blocked_ips, last_call.ip)

\* an ip blocked under the defaults calls two block times later and is served
C27_Witness ==
    /\ DefaultArguments
    /\ last_call.was_blocked
    /\ last_call.at - last_call.blocked_at > block_seconds
    /\ last_call.allowed
    /\ ~dict_has(mw_limiter.blocked_ips, last_call.ip)

\* C30: what the admin stats report is the state of the rate limiter the
\* middleware consults: every ip the middleware has blocked is in
\* blocked_ips_list, and the counts are those of that limiter
C30_StatsOfMiddlewareLimiter ==
    [][stats' # stats =>
          /\ stats'.blocked_ips_list = dict_keys(mw_limiter'.blocked_ips)
          /\ stats'.blocked_ips = Len(mw_limiter'.blocked_ips)
          /\ stats'.active_requests = Len(mw_limiter'.requests)]_vars

-----------------------------------------------------------------------------
(* GET /api/v1/match/<id> over the cache: get_match_details looks up the     *)
(* key match_data_<id>, then calls fetch_match_data_cached, which memoize    *)
(* keeps under a key of its own; handlers run on threads of their own.       *)

Handlers == 1..NumHandlers

\* the match id the requests ask for
CacheMatchIds == {"101"}

\* f"match_data_{match_id}", and the key memoize makes of the function and
\* its argument
match_data_key(m) == <<"match_data", m>>
memoize_key(m) == <<"fetch_match_data_cached", m>>

CacheKeys == {match_data_key(m) : m \in CacheMatchIds}
             \cup {memoize_key(m) : m \in CacheMatchIds}

\* the bundle of fetch_match_data_sync: 'cached' is False, and a section that
\* failed holds its error
bundle_of(m, section_errors) ==
    [match_id |-> m, section_errors |-> section_errors, cached |-> FALSE]

NoBundle == [match_id |-> "", section_errors |-> FALSE, cached |-> FALSE]

NoEntry == [present |-> FALSE, value |-> NoBundle, expires |-> 0]

\* cache.set(key, value, timeout)
set_with_timeout(c, key, value, t) ==
    [c EXCEPT ![key] = [present |-> TRUE, value |-> value, expires |-> t + cache_timeout]]

\* an entry that cache.get and memoize give back
unexpired(c, key, t) == c[key].present /\ t < c[key].expires

\* an unexpired cache entry for the match id, under either key
has_entry(c, m, t) == unexpired(c, match_data_key(m), t) \/ unexpired(c, memoize_key(m), t)

NoResp == [kind |-> "none", value |-> NoBundle, upstream |-> FALSE]

InitCache ==
    /\ MainIdle /\ TokIdle /\ ParseIdle /\ ScoreIdle /\ SessionIdle /\ PoolIdle
    /\ ExtractIdle /\ RateIdle
    /\ cache_store = [key \in CacheKeys |-> NoEntry]
    /\ cache_now = 0
    /\ h_pc = [h \in Handlers |-> "idle"]
    /\ h_match = [h \in Handlers |-> ""]
    /\ h_data = [h \in Handlers |-> NoBundle]
    /\ h_fetched = [h \in Handlers |-> FALSE]
    /\ h_resp = [h \in Handlers |-> NoResp]

\* get_match_details up to the call of fetch_match_data_cached: a hit on
\* match_data_<id> is returned with 'cached' set
GetMatchDetails(h, m) ==
    /\ h_pc[h] = "idle"
    /\ h_match' = [h_match EXCEPT ![h] = m]
    /\ IF unexpired(cache_store, match_data_key(m), cache_now)
       THEN /\ h_resp' = [h_resp EXCEPT ![h] =
                             [kind |-> "bundle",
                              value |-> [cache_store[match_data_key(m)].value
                                            EXCEPT !.cached = TRUE],
                              upstream |-> FALSE]]
            /\ h_pc' = [h_pc EXCEPT ![h] = "done"]
       ELSE /\ h_pc' = [h_pc EXCEPT ![h] = "missed"]
            /\ UNCHANGED h_resp
    /\ UNCHANGED <<cache_store, cache_now, h_data, h_fetched>>
    /\ UNCHANGED <<main_vars, tok_vars, parse_vars, score_vars, session_vars, pool_vars,
                   extract_vars, rate_vars>>

\* the memoize wrapper of fetch_match_data_cached: an unexpired entry is
\* returned, otherwise fetch_match_data_sync is called
MemoizeLookup(h) ==
    /\ h_pc[h] = "missed"
    /\ IF unexpired(cache_store, memoize_key(h_match[h]), cache_now)
       THEN /\ h_data' = [h_data EXCEPT ![h] =
                             cache_store[memoize_key(h_match[h])].value]
            /\ h_pc' = [h_pc EXCEPT ![h] = "store"]
            /\ UNCHANGED h_fetched
       ELSE /\ h_fetched' = [h_fetched EXCEPT ![h] = TRUE]
            /\ h_pc' = [h_pc EXCEPT ![h] = "fetching"]
            /\ UNCHANGED h_data
    /\ UNCHANGED <<cache_store, cache_now, h_match, h_resp>>
    /\ UNCHANGED <<main_vars, tok_vars, parse_vars, score_vars, session_vars, pool_vars,
                   extract_vars, rate_vars>>

\* fetch_match_data_sync returned a bundle, with or without sections in
\* error: memoize stores it and returns it
FetchReturned(h, section_errors) ==
    /\ h_pc[h] = "fetching"
    /\ LET fetched == bundle_of(h_match[h], section_errors)
       IN  /\ cache_store' = set_with_timeout(cache_store, memoize_key(h_match[h]),
                                           fetched, cache_now)
           /\ h_data' = [h_data EXCEPT ![h] = fetched]
    /\ h_pc' = [h_pc EXCEPT ![h] = "store"]
    /\ UNCHANGED <<cache_now, h_match, h_fetched, h_resp>>
    /\ UNCHANGED <<main_vars, tok_vars, parse_vars, score_vars, session_vars, pool_vars,
                   extract_vars, rate_vars>>

\* fetch_match_data_sync raised APIError: it passes through memoize and
\* get_match_details to the error handler
FetchRaised(h) ==
    /\ h_pc[h] = "fetching"
    /\ h_resp' = [h_resp EXCEPT ![h] =
                     [kind |-> "error", value |-> NoBundle, upstream |-> TRUE]]
    /\ h_pc' = [h_pc EXCEPT ![h] = "done"]
    /\ UNCHANGED <<cache_store, cache_now, h_match, h_data, h_fetched>>
    /\ UNCHANGED <<main_vars, tok_vars, parse_vars, score_vars, session_vars, pool_vars,
                   extract_vars, rate_vars>>

\* cache.set(cache_key, data, timeout=300) and return jsonify(data)
StoreAndReturn(h) ==
    /\ h_pc[h] = "store"
    /\ cache_store' = set_with_timeout(cache_store, match_data_key(h_match[h]),
                                       h_data[h], cache_now)
    /\ h_resp' = [h_resp EXCEPT ![h] =
                     [kind |-> "bundle", value |-> h_data[h], upstream |-> h_fetched[h]]]
    /\ h_pc' = [h_pc EXCEPT ![h] = "done"]
    /\ UNCHANGED <<cache_now, h_match, h_data, h_fetched>>
    /\ UNCHANGED <<main_vars, tok_vars, parse_vars, score_vars, session_vars, pool_vars,
                   extract_vars, rate_vars>>

\* the response is sent and the thread takes its next request
HandlerDone(h) ==
    /\ h_pc[h] = "done"
    /\ h_pc' = [h_pc EXCEPT ![h] = "idle"]
    /\ h_match' = [h_match EXCEPT ![h] = ""]
    /\ h_data' = [h_data EXCEPT ![h] = NoBundle]
    /\ h_fetched' = [h_fetched EXCEPT ![h] = FALSE]
    /\ h_resp' = [h_resp EXCEPT ![h] = NoResp]
    /\ UNCHANGED <<cache_store, cache_now>>
    /\ UNCHANGED <<main_vars, tok_vars, parse_vars, score_vars, session_vars, pool_vars,
                   extract_vars, rate_vars>>

\* DELETE /api/v1/cache/clear
ClearCache ==
    /\ cache_store # [key \in CacheKeys |-> NoEntry]
    /\ cache_store' = [key \in CacheKeys |-> NoEntry]
    /\ UNCHANGED <<cache_now, h_pc, h_match, h_data, h_fetched, h_resp>>
    /\ UNCHANGED <<main_vars, tok_vars, parse_vars, score_vars, session_vars, pool_vars,
                   extract_vars, rate_vars>>

\* time passes, half a cache timeout at a time
CacheTick ==
    /\ cache_now < MaxCacheTicks * (cache_timeout \div 2)
    /\ cache_now' = cache_now + cache_timeout \div 2
    /\ UNCHANGED <<cache_store, h_pc, h_match, h_data, h_fetched, h_resp>>
    /\ UNCHANGED <<main_vars, tok_vars, parse_vars, score_vars, session_vars, pool_vars,
                   extract_vars, rate_vars>>

NextCache ==
    \/ \E h \in Handlers, m \in CacheMatchIds : GetMatchDetails(h, m)
    \/ \E h \in Handlers : MemoizeLookup(h)
    \/ \E h \in Handlers, section_errors \in BOOLEAN : FetchReturned(h, section_errors)
    \/ \E h \in Handlers : FetchRaised(h)
    \/ \E h \in Handlers : StoreAndReturn(h)
    \/ \E h \in Handlers : HandlerDone(h)
    \/ ClearCache
    \/ CacheTick

SpecCache == InitCache /\ [][NextCache]_vars

\* C29: a match-details request calls upstream if and only if no unexpired
\* cache entry exists for its match id; a bundle that is served without an
\* upstream call is served with cached true; a fetch that returned is
\* stored, and a fetch that raised stores nothing
C29_UpstreamIffNoEntry ==
    [][\A h \in Handlers :
          /\ (h_pc[h] = "missed" /\ h_pc'[h] = "fetching") =>
                ~has_entry(cache_store, h_match[h], cache_now)
          /\ (h_pc[h] \in {"idle", "missed"} /\ h_pc'[h] \in {"store", "done"}) =>
                has_entry(cache_store, h_match'[h], cache_now)
          /\ (h_pc[h] # "done" /\ h_pc'[h] = "done" /\ h_resp'[h].kind = "bundle"
                /\ ~h_resp'[h].upstream) =>
                h_resp'[h].value.cached
          /\ (h_pc[h] = "fetching" /\ h_pc'[h] = "store") =>
                /\ unexpired(cache_store', memoize_key(h_match[h]), cache_now)
                /\ cache_store'[memoize_key(h_match[h])].value = h_data'[h]
          /\ (h_pc[h] = "store" /\ h_pc'[h] = "done") =>
                /\ unexpired(cache_store', match_data_key(h_match[h]), cache_now)
                /\ cache_store'[match_data_key(h_match[h])].value = h_resp'[h].value
          /\ (h_pc[h] = "fetching" /\ h_pc'[h] = "done") =>
                cache_store' = cache_store]_vars

====
